---- MODULE Spec2Model ----
(***************************************************************************)
(* rtmp-auth: the credential registry (Store), its authorization decision, *)
(* its crash-safe persistence, the expiry sweeper and the control-plane    *)
(* revocation, as a state machine.  One action per lock scope of the Go    *)
(* code: a critical section's in-memory change is one step, and the Save   *)
(* that follows it inside the same lock scope is stepped through the file  *)
(* system calls it makes.                                                  *)
(***************************************************************************)
EXTENDS Integers, Sequences, FiniteSets, TLC

(* ------------------------------ bounds --------------------------------- *)
\* The registry holds at most MaxStreams records.
MaxStreams == 2
\* The identifier generator issues at most MaxIds identifiers.
MaxIds == 3
\* The clock runs from 0 to MaxTime.
MaxTime == 1
\* At most MaxFails file system calls fail.
MaxFails == 1
\* Concurrent handlers serve at most MaxRequests requests.
MaxRequests == 3

(* ------------------------------ inputs --------------------------------- *)
Handlers == {"h1", "h2"}
Sweeper == "sweeper"
Main == "main"
Workers == Handlers \cup {Sweeper}
Procs == Workers \cup {Main}

Apps == {"live"}
Names == {"s1", "s2"}
Keys == {"k1", "k2"}
\* The requests' fields: one request at a time sees all of them, concurrent
\* requests contend for one (application, name).
InSeq == [apps |-> Apps, names |-> Names, keys |-> Keys,
          creds |-> Names \X Keys, blocked |-> BOOLEAN, counted |-> FALSE]
InConc == [apps |-> Apps, names |-> {"s1"}, keys |-> Keys,
           creds |-> {"s1"} \X Keys, blocked |-> {FALSE}, counted |-> TRUE]
CtrlUrls == {"", "http://relay"}

\* The "never expires" sentinel of AuthExpire.
Never == -1
Expiries == {Never, 0}

\* The empty identifier Auth returns with "unauthorized".
NoId == 0
Ids == 1..MaxIds

\* HTTP statuses the handlers answer with.
StatusOK == 200
StatusSeeOther == 303
StatusUnauthorized == 401
StatusForbidden == 403
StatusConflict == 409

(* ------------------------- the registry's data ------------------------- *)
\* storage.State before anything is loaded or generated.
ZeroState == [Secret |-> "", CtrlUrl |-> "", Streams |-> <<>>]

\* The 32 random bytes NewStore generates.
NewSecret == "secret32"

NewStream(id, app, name, key, expire, blocked) ==
    [Id |-> id, Application |-> app, Name |-> name, AuthKey |-> key,
     AuthExpire |-> expire, Notes |-> "", Blocked |-> blocked, Active |-> FALSE]

\* The index of the first record with identifier id, 0 when there is none.
IndexOfId(s, id) ==
    IF \E i \in 1..Len(s) : s[i].Id = id
    THEN CHOOSE i \in 1..Len(s) :
            s[i].Id = id /\ \A j \in 1..(i - 1) : s[j].Id # id
    ELSE 0

GetStreamById(s, id) == IndexOfId(s, id)

GetAppNameById(s, id) ==
    IF \E i \in 1..Len(s) : s[i].Id = id
    THEN LET last == CHOOSE i \in 1..Len(s) :
                        s[i].Id = id /\ \A j \in (i + 1)..Len(s) : s[j].Id # id
         IN [found |-> TRUE, app |-> s[last].Application, name |-> s[last].Name]
    ELSE [found |-> FALSE, app |-> "", name |-> ""]

IsActiveByAppName(s, app, name) ==
    \E i \in 1..Len(s) :
        s[i].Application = app /\ s[i].Name = name /\ s[i].Active = TRUE

(* ------------------------------- Auth ---------------------------------- *)
\* Mutants of Auth.
RECURSIVE AuthAlwaysChecksConflict(_, _, _, _, _)
AuthAlwaysChecksConflict(s, i, app, name, auth) ==
    IF i > Len(s) THEN [id |-> NoId, reason |-> "unauthorized"]
    ELSE IF s[i].Application = app /\ s[i].Name = name /\ s[i].AuthKey = auth
    THEN IF s[i].Blocked = FALSE
         THEN IF ~IsActiveByAppName(s, app, name)
              THEN [id |-> s[i].Id, reason |-> "granted"]
              ELSE [id |-> s[i].Id, reason |-> "busy"]
         ELSE [id |-> s[i].Id, reason |-> "blocked"]
    ELSE AuthAlwaysChecksConflict(s, i + 1, app, name, auth)

RECURSIVE AuthNoIdOnDenial(_, _, _, _, _)
AuthNoIdOnDenial(s, i, app, name, auth) ==
    IF i > Len(s) THEN [id |-> NoId, reason |-> "unauthorized"]
    ELSE IF s[i].Application = app /\ s[i].Name = name /\ s[i].AuthKey = auth
    THEN IF s[i].Blocked = FALSE
         THEN LET conflict == IF s[i].Active = TRUE THEN FALSE
                              ELSE IsActiveByAppName(s, app, name)
              IN IF conflict = FALSE
                 THEN [id |-> s[i].Id, reason |-> "granted"]
                 ELSE [id |-> NoId, reason |-> "busy"]
         ELSE [id |-> NoId, reason |-> "blocked"]
    ELSE AuthNoIdOnDenial(s, i + 1, app, name, auth)

\* The scan of Store.Auth from record i on: the first record whose
\* application, name and key all equal the inputs decides.
RECURSIVE AuthFrom(_, _, _, _, _)
AuthFrom(s, i, app, name, auth) ==
    IF i > Len(s) THEN [id |-> NoId, reason |-> "unauthorized"]
    ELSE IF s[i].Application = app /\ s[i].Name = name /\ s[i].AuthKey = auth
    THEN IF s[i].Blocked = FALSE
         THEN LET conflict == IF s[i].Active = TRUE THEN FALSE
                              ELSE IsActiveByAppName(s, app, name)
              IN IF conflict = FALSE
                 THEN [id |-> s[i].Id, reason |-> "granted"]
                 ELSE [id |-> s[i].Id, reason |-> "busy"]
         ELSE [id |-> s[i].Id, reason |-> "blocked"]
    ELSE AuthFrom(s, i + 1, app, name, auth)

Auth(s, app, name, auth) == AuthFrom(s, 1, app, name, auth)

(* ------------------ the in-memory part of the mutations ---------------- *)
\* Mutant of SetActiveMem: every record of the (application, name) is set.
SetActiveMemByAppName(s, id) ==
    LET k == IndexOfId(s, id)
    IN [i \in 1..Len(s) |->
          IF s[i].Application = s[k].Application /\ s[i].Name = s[k].Name
          THEN [s[i] EXCEPT !.Active = TRUE] ELSE s[i]]

\* SetActive's loop body, for an id that IndexOfId finds.
SetActiveMem(s, id) ==
    [s EXCEPT ![IndexOfId(s, id)].Active = TRUE]

\* Mutant of SetInactiveMem: only the first active record is cleared.
SetInactiveMemFirstOnly(s, app, name) ==
    LET hit(i) == s[i].Application = app /\ s[i].Name = name /\ s[i].Active = TRUE
    IN [i \in 1..Len(s) |->
          IF hit(i) /\ \A j \in 1..(i - 1) : ~hit(j)
          THEN [s[i] EXCEPT !.Active = FALSE] ELSE s[i]]

\* Mutant of StateChange: the flag is set whatever the loop saw.
StateChangeAlways(s, app, name) == TRUE

\* SetInactive's stateChange after the loop.
StateChange(s, app, name) ==
    \E i \in 1..Len(s) :
        s[i].Application = app /\ s[i].Name = name /\ s[i].Active = TRUE

\* SetInactive's loop.
SetInactiveMem(s, app, name) ==
    [i \in 1..Len(s) |->
        IF s[i].Application = app /\ s[i].Name = name /\ s[i].Active = TRUE
        THEN [s[i] EXCEPT !.Active = FALSE] ELSE s[i]]

SetBlockedMem(s, id, state) ==
    [s EXCEPT ![IndexOfId(s, id)].Blocked = state]

\* Mutant of RemoveStreamMem: an absent id removes the last record (the
\* loop's index after a scan that found nothing).
RemoveStreamMemNoFoundCheck(s, id) ==
    LET k == IF IndexOfId(s, id) = 0 THEN Len(s) ELSE IndexOfId(s, id)
    IN IF k = 0 THEN s
       ELSE [i \in 1..(Len(s) - 1) |-> IF i < k THEN s[i] ELSE s[i + 1]]

\* Mutant of RemoveStreamMem: the last record is moved into the removed
\* record's place.
RemoveStreamMemSwapsLast(s, id) ==
    LET k == IndexOfId(s, id)
    IN IF k = 0 THEN s
       ELSE [i \in 1..(Len(s) - 1) |-> IF i = k THEN s[Len(s)] ELSE s[i]]

\* RemoveStream's shift-left and truncate; nothing when the id is absent.
RemoveStreamMem(s, id) ==
    LET k == IndexOfId(s, id)
    IN IF k = 0 THEN s
       ELSE [i \in 1..(Len(s) - 1) |-> IF i < k THEN s[i] ELSE s[i + 1]]

\* Mutant of Expired: at or before the sweep time.
ExpiredAtOrBefore(stream, t) ==
    stream.AuthExpire # Never /\ stream.AuthExpire <= t

\* Mutant of Expired: a record is kept for a second after its expiry.
ExpiredASecondAgo(stream, t) ==
    stream.AuthExpire # Never /\ stream.AuthExpire < t - 1

\* Expire's test of one record against the sweep time.
Expired(stream, t) ==
    stream.AuthExpire # Never /\ stream.AuthExpire < t

RECURSIVE ToDelete(_, _)
ToDelete(s, t) ==
    IF s = <<>> THEN <<>>
    ELSE IF Expired(Head(s), t)
         THEN <<Head(s).Id>> \o ToDelete(Tail(s), t)
         ELSE ToDelete(Tail(s), t)

(* ----------------------------- persistence ----------------------------- *)
\* A file's content: absent, a partially written blob, bytes that do not
\* parse, or a complete serialized state.
Absent == [kind |-> "absent", data |-> <<>>]
Partial == [kind |-> "partial", data |-> <<>>]
Corrupt == [kind |-> "corrupt", data |-> <<>>]

\* The n low base-128 groups of m, least significant first.
RECURSIVE Groups(_, _)
Groups(m, n) ==
    IF n = 0 THEN <<>> ELSE <<m % 128>> \o Groups(m \div 128, n - 1)

\* The number of base-128 groups of m >= 0.
RECURSIVE GroupCount(_)
GroupCount(m) == IF m < 128 THEN 1 ELSE 1 + GroupCount(m \div 128)

\* The number the groups g stand for.
RECURSIVE GroupsValue(_)
GroupsValue(g) == IF g = <<>> THEN 0 ELSE Head(g) + 128 * GroupsValue(Tail(g))

\* The varint of an int64: the groups of its 64-bit two's complement, ten
\* of them for a negative number (nine complemented groups and bit 63).
EncodeVarint(v) ==
    IF v >= 0 THEN Groups(v, GroupCount(v))
    ELSE [i \in 1..10 |-> IF i < 10 THEN 127 - Groups(-v - 1, 9)[i] ELSE 1]

\* The int64 a varint stands for.
DecodeVarint(g) ==
    IF Len(g) = 10 /\ g[10] = 1
    THEN -1 - GroupsValue([i \in 1..9 |-> 127 - g[i]])
    ELSE GroupsValue(g)

\* A record's identifier as the string the file holds ("" for none).
IdString(id) == IF id = NoId THEN "" ELSE ToString(id)

StringId(str) == IF str = "" THEN NoId ELSE CHOOSE id \in Ids : ToString(id) = str

\* A field on the wire: its number and its payload, a string or a varint.
\* A field holding its type's zero value ("", 0, false) is not written.
StringField(num, str) ==
    IF str = "" THEN <<>> ELSE <<[num |-> num, str |-> str, varint |-> <<>>]>>

Int64Field(num, v) ==
    IF v = 0 THEN <<>> ELSE <<[num |-> num, str |-> "", varint |-> EncodeVarint(v)]>>

BoolField(num, b) == Int64Field(num, IF b THEN 1 ELSE 0)

\* The last field numbered num of the message w; a missing field reads as
\* its type's zero value.
HasField(w, num) == \E i \in 1..Len(w) : w[i].num = num

LastField(w, num) ==
    w[CHOOSE i \in 1..Len(w) :
          w[i].num = num /\ \A j \in (i + 1)..Len(w) : w[j].num # num]

GetString(w, num) == IF HasField(w, num) THEN LastField(w, num).str ELSE ""

GetInt64(w, num) ==
    IF HasField(w, num) THEN DecodeVarint(LastField(w, num).varint) ELSE 0

GetBool(w, num) == GetInt64(w, num) # 0

\* storage.Stream on the wire.
MarshalStream(r) ==
    StringField(1, IdString(r.Id)) \o StringField(2, r.Application)
      \o StringField(3, r.Name) \o StringField(4, r.AuthKey)
      \o Int64Field(5, r.AuthExpire) \o StringField(6, r.Notes)
      \o BoolField(7, r.Blocked) \o BoolField(8, r.Active)

UnmarshalStream(w) ==
    [Id |-> StringId(GetString(w, 1)), Application |-> GetString(w, 2),
     Name |-> GetString(w, 3), AuthKey |-> GetString(w, 4),
     AuthExpire |-> GetInt64(w, 5), Notes |-> GetString(w, 6),
     Blocked |-> GetBool(w, 7), Active |-> GetBool(w, 8)]

\* proto.Marshal(&store.State): the fields of the state, then the records
\* in order, one embedded message each.
Marshal(st) ==
    [kind |-> "data",
     data |-> <<StringField(1, st.Secret) \o StringField(2, st.CtrlUrl),
                [i \in 1..Len(st.Streams) |-> MarshalStream(st.Streams[i])]>>]

\* Mutant of Unmarshal: the bytes are decoded into a copy and the store's
\* state stays as it was constructed.
UnmarshalIntoCopy(c) == ZeroState

\* proto.Unmarshal(data, &store.State).
Unmarshal(c) ==
    [Secret |-> GetString(c.data[1], 1), CtrlUrl |-> GetString(c.data[1], 2),
     Streams |-> [i \in 1..Len(c.data[2]) |-> UnmarshalStream(c.data[2][i])]]

\* Mutant of TmpPath: the state is written straight onto the real path.
TmpPathIsRealPath == "real"

\* The two paths Save uses: store.Path and store.Path + "." + time.Now().
RealPath == "real"
TmpPath == "tmp"


\* os.Rename(from, to) on the file system f.
Rename(f, from, to) ==
    IF from = to THEN f
    ELSE [f EXCEPT ![to] = f[from], ![from] = Absent]

(* ------------------------------- state ---------------------------------- *)
VARIABLES
    State,      \* store.State: Secret, CtrlUrl, Streams
    files,      \* the file system: the content of RealPath and of TmpPath
    writer,     \* the holder of the store's exclusive lock, or "none"
    pc,         \* each call path's position
    loc,        \* each call path's local variables
    now,        \* time.Now().Unix()
    nextId,     \* the identifier uuid.NewUUID() returns next
    fails,      \* the file system calls that failed so far
    reqs        \* the requests counted so far

vars == <<State, files, writer, pc, loc, now, nextId, fails, reqs>>

\* A call path's locals: the handler (op), the Store method it is in (call),
\* the request's fields, the error of the last call (err, "" for nil),
\* the reason of Auth's decision (reason, "" before Auth returned),
\* RemoveStream's found and index, the outbound drop requests issued (sent), the
\* outcome of the control-plane step (drop), Expire's toDelete (todo) and
\* sweep time (t), the marshalled bytes Save writes (out), the Saves the
\* current Store call completed (saves), and the HTTP status answered
\* (status, 0 before the answer).
Loc0 ==
    [op |-> "", call |-> "", app |-> "", name |-> "", key |-> "", id |-> NoId,
     err |-> "", reason |-> "", found |-> FALSE, index |-> 0, sent |-> 0, drop |-> "", newstate |-> FALSE, todo |-> <<>>, t |-> 0,
     out |-> Absent, saves |-> 0, status |-> 0]

Streams == State.Streams

\* The HTTP servers take requests: from main's go ListenAndServe until
\* Shutdown closes the listeners.
Serving == pc[Main] \in {"serving", "interrupted", "polling_stopped"}

\* The sweeper's goroutine is in its select loop: a tick can start a cycle
\* until the goroutine has returned or the process has exited.
Polling == pc[Main] \in {"serving", "interrupted", "polling_stopped", "shutdown"}

Unlock(p) == writer' = IF writer = p THEN "none" ELSE writer

\* The handlers that hold the shared lock across steps: DumpscriptHandler
\* writes its response between RLock and the deferred RUnlock.
Readers == {p \in Handlers : pc[p] = "dump"}

\* store.Lock() returns: nobody holds the lock, exclusive or shared.
LockFree == writer = "none" /\ Readers = {}

\* A state an earlier run of the program saved: two records of one
\* (application, name) with different keys, the second one expiring at 0.
SavedState ==
    [Secret |-> NewSecret, CtrlUrl |-> "",
     Streams |-> <<NewStream(1, "live", "s1", "k1", Never, FALSE),
                   NewStream(2, "live", "s1", "k2", 0, FALSE)>>]

\* The process starts with no file, an unreadable file, or a saved state.
Init ==
    /\ State = ZeroState
    /\ files \in {[f \in {RealPath, TmpPath} |-> IF f = RealPath THEN c ELSE Absent] :
                    c \in {Absent, Corrupt, Marshal(SavedState)}}
    /\ writer = "none"
    /\ pc = [p \in Procs |-> IF p = Main THEN "boot" ELSE "idle"]
    /\ loc = [p \in Procs |-> Loc0]
    /\ now = 0
    /\ nextId = IF files[RealPath].kind = "data"
                THEN Len(Unmarshal(files[RealPath]).Streams) + 1 ELSE 1
    /\ fails = 0
    /\ reqs = 0

(* ------------------------------- Save ----------------------------------- *)
\* A temporary file no later step names is left out of the file system.
Forget(f) == IF TmpPath = RealPath THEN f ELSE [f EXCEPT ![TmpPath] = Absent]

\* Mutant of SaveBegin: the lock is released before the file is written.
SaveBeginUnlocked(p) ==
    /\ pc[p] = "save"
    /\ loc' = [loc EXCEPT ![p].out = Marshal(State)]
    /\ files' = [files EXCEPT ![TmpPath] = Partial]
    /\ pc' = [pc EXCEPT ![p] = "save_write"]
    /\ writer' = "none"
    /\ UNCHANGED <<State, now, nextId, fails, reqs>>

\* save(): proto.Marshal, then ioutil.WriteFile creates the temporary file.
SaveBegin(p) ==
    /\ pc[p] = "save"
    /\ loc' = [loc EXCEPT ![p].out = Marshal(State)]
    /\ files' = [files EXCEPT ![TmpPath] = Partial]
    /\ pc' = [pc EXCEPT ![p] = "save_write"]
    /\ UNCHANGED <<State, writer, now, nextId, fails, reqs>>

\* ioutil.WriteFile writes the bytes.
SaveWrite(p) ==
    /\ pc[p] = "save_write"
    /\ files' = [files EXCEPT ![TmpPath] = loc[p].out]
    /\ pc' = [pc EXCEPT ![p] = "save_rename"]
    /\ UNCHANGED <<State, writer, loc, now, nextId, fails, reqs>>

\* os.Rename(tmp, store.Path); save returns nil and the caller's deferred
\* Unlock runs.
SaveRename(p) ==
    /\ pc[p] = "save_rename"
    /\ files' = Rename(files, TmpPath, RealPath)
    /\ loc' = [loc EXCEPT ![p].err = "", ![p].out = Absent, ![p].saves = @ + 1]
    /\ pc' = [pc EXCEPT ![p] = "ret"]
    /\ Unlock(p)
    /\ UNCHANGED <<State, now, nextId, fails, reqs>>

\* Mutant of SaveAll: the caller returns without unlocking.
SaveAllKeepsLock(p) ==
    /\ pc[p] = "save"
    /\ files' = Rename([files EXCEPT ![TmpPath] = Marshal(State)], TmpPath, RealPath)
    /\ loc' = [loc EXCEPT ![p].err = "", ![p].saves = @ + 1]
    /\ pc' = [pc EXCEPT ![p] = "ret"]
    /\ UNCHANGED <<State, writer, now, nextId, fails, reqs>>

\* save() from its first to its last statement in one step, for the
\* behaviours in which no file system call fails and the process is not
\* killed: nothing else reads or writes the files meanwhile.
SaveAll(p) ==
    /\ pc[p] = "save"
    /\ files' = Rename([files EXCEPT ![TmpPath] = Marshal(State)], TmpPath, RealPath)
    /\ loc' = [loc EXCEPT ![p].err = "", ![p].saves = @ + 1]
    /\ pc' = [pc EXCEPT ![p] = "ret"]
    /\ Unlock(p)
    /\ UNCHANGED <<State, now, nextId, fails, reqs>>

\* Mutant of SaveFail: the state in memory goes back to the saved one.
SaveFailRollsBack(p) ==
    /\ pc[p] \in {"save_write", "save_rename"}
    /\ fails < MaxFails
    /\ fails' = fails + 1
    /\ loc' = [loc EXCEPT ![p].err = "PersistenceFailure", ![p].out = Absent]
    /\ files' = Forget(files)
    /\ pc' = [pc EXCEPT ![p] = "ret"]
    /\ Unlock(p)
    /\ State' = IF files[RealPath].kind = "data" THEN Unmarshal(files[RealPath])
                ELSE ZeroState
    /\ UNCHANGED <<now, nextId, reqs>>

\* ioutil.WriteFile or os.Rename fails: save returns the error, the
\* temporary file stays as it is, and the caller's deferred Unlock runs.
SaveFail(p) ==
    /\ pc[p] \in {"save_write", "save_rename"}
    /\ fails < MaxFails
    /\ fails' = fails + 1
    /\ loc' = [loc EXCEPT ![p].err = "PersistenceFailure", ![p].out = Absent]
    /\ files' = Forget(files)
    /\ pc' = [pc EXCEPT ![p] = "ret"]
    /\ Unlock(p)
    /\ UNCHANGED <<State, now, nextId, reqs>>

(* ------------------------------ startup --------------------------------- *)
\* NewStore: store.read().  A temporary file a killed process left behind
\* is never named again.
NewStoreRead ==
    /\ pc[Main] = "boot"
    /\ LockFree
    /\ IF files[RealPath].kind = "absent"
       THEN /\ pc' = [pc EXCEPT ![Main] = "ns_secret"]
            /\ UNCHANGED State
       ELSE IF files[RealPath].kind = "data"
       THEN /\ State' = Unmarshal(files[RealPath])
            /\ pc' = [pc EXCEPT ![Main] = "ns_secret"]
       ELSE /\ pc' = [pc EXCEPT ![Main] = "fatal"]
            /\ UNCHANGED State
    /\ files' = Forget(files)
    /\ UNCHANGED <<writer, loc, now, nextId, fails, reqs>>

\* NewStore: a state without a secret gets one and is saved (no lock taken).
NewStoreSecret ==
    /\ pc[Main] = "ns_secret"
    /\ IF State.Secret = ""
       THEN /\ State' = [State EXCEPT !.Secret = NewSecret]
            /\ loc' = [loc EXCEPT ![Main] = [Loc0 EXCEPT !.op = "main", !.call = "NewStore"]]
            /\ pc' = [pc EXCEPT ![Main] = "save"]
       ELSE /\ pc' = [pc EXCEPT ![Main] = "set_ctrl"]
            /\ UNCHANGED <<State, loc>>
    /\ UNCHANGED <<files, writer, now, nextId, fails, reqs>>

\* NewStore ignores what save returned.
NewStoreReturn ==
    /\ pc[Main] = "ret" /\ loc[Main].call = "NewStore"
    /\ pc' = [pc EXCEPT ![Main] = "set_ctrl"]
    /\ loc' = [loc EXCEPT ![Main] = Loc0]
    /\ UNCHANGED <<State, files, writer, now, nextId, fails, reqs>>

\* main: store.SetCtrlUrl(*ctrlurl).
SetCtrlUrl ==
    /\ pc[Main] = "set_ctrl"
    /\ LockFree
    /\ \E u \in CtrlUrls : State' = [State EXCEPT !.CtrlUrl = u]
    /\ writer' = Main
    /\ loc' = [loc EXCEPT ![Main] = [Loc0 EXCEPT !.op = "main", !.call = "SetCtrlUrl"]]
    /\ pc' = [pc EXCEPT ![Main] = "save"]
    /\ UNCHANGED <<files, now, nextId, fails, reqs>>

\* main logs SetCtrlUrl's error and starts the sweeper and the servers.
MainServe ==
    /\ pc[Main] = "ret" /\ loc[Main].call = "SetCtrlUrl"
    /\ pc' = [pc EXCEPT ![Main] = "serving"]
    /\ loc' = [loc EXCEPT ![Main] = Loc0]
    /\ UNCHANGED <<State, files, writer, now, nextId, fails, reqs>>

\* The process is killed (and started again by NewStoreRead): memory is
\* lost, the files stay.
Crash ==
    /\ pc[Main] # "boot"
    /\ State' = ZeroState
    /\ writer' = "none"
    /\ pc' = [p \in Procs |-> IF p = Main THEN "boot" ELSE "idle"]
    /\ loc' = [p \in Procs |-> Loc0]
    /\ UNCHANGED <<files, now, nextId, fails, reqs>>

(* ------------------------------ shutdown -------------------------------- *)
\* main: the interrupt arrives on c and the 100 ms context is created.
Interrupt ==
    /\ pc[Main] = "serving"
    /\ pc' = [pc EXCEPT ![Main] = "interrupted"]
    /\ UNCHANGED <<State, files, writer, loc, now, nextId, fails, reqs>>

\* main: close(stopPolling).
StopPolling ==
    /\ pc[Main] = "interrupted"
    /\ pc' = [pc EXCEPT ![Main] = "polling_stopped"]
    /\ UNCHANGED <<State, files, writer, loc, now, nextId, fails, reqs>>

\* main: go apiServer.Shutdown(ctx); go frontendServer.Shutdown(ctx): the
\* listeners are closed, the requests in flight go on.
ShutdownServers ==
    /\ pc[Main] = "polling_stopped"
    /\ pc' = [pc EXCEPT ![Main] = "shutdown"]
    /\ UNCHANGED <<State, files, writer, loc, now, nextId, fails, reqs>>

\* The sweeper's goroutine, between two cycles, receives from the closed
\* stopPolling and returns.
SweeperStop ==
    /\ pc[Main] \in {"polling_stopped", "shutdown"}
    /\ pc[Sweeper] = "idle"
    /\ pc' = [pc EXCEPT ![Sweeper] = "stopped"]
    /\ UNCHANGED <<State, files, writer, loc, now, nextId, fails, reqs>>

\* main: <-ctx.Done() after 100 ms, and main returns: the process exits
\* whatever its goroutines are doing.
Exit ==
    /\ pc[Main] = "shutdown"
    /\ State' = ZeroState
    /\ writer' = "none"
    /\ pc' = [p \in Procs |-> IF p = Main THEN "exited" ELSE "idle"]
    /\ loc' = [p \in Procs |-> Loc0]
    /\ UNCHANGED <<files, now, nextId, fails, reqs>>

\* The clock, read by Expire alone: time passes between two sweeper cycles.
Tick ==
    /\ pc[Sweeper] = "idle"
    /\ now < MaxTime
    /\ now' = now + 1
    /\ UNCHANGED <<State, files, writer, pc, loc, nextId, fails, reqs>>


(* ------------------------- Store calls, by step ------------------------- *)
\* p's locals become l with the Store method and its error filled in.
Called(p, l, call, err) ==
    loc' = [loc EXCEPT ![p] = [l EXCEPT !.call = call, !.err = err, !.saves = 0]]

\* Store.SetInactive(app, name) called by p: the loop under the exclusive
\* lock, then either the NotFound return or the Save.
SetInactiveCall(p, l, app, name) ==
    /\ LockFree
    /\ IF StateChange(Streams, app, name)
       THEN /\ State' = [State EXCEPT !.Streams = SetInactiveMem(Streams, app, name)]
            /\ writer' = p
            /\ Called(p, [l EXCEPT !.app = app, !.name = name], "SetInactive", "")
            /\ pc' = [pc EXCEPT ![p] = "save"]
       ELSE /\ Called(p, [l EXCEPT !.app = app, !.name = name], "SetInactive", "NotFound")
            /\ pc' = [pc EXCEPT ![p] = "ret"]
            /\ UNCHANGED <<State, writer>>
    /\ UNCHANGED <<files, now, nextId, fails>>

\* Store.SetActive(id) called by p.
SetActiveCall(p, l, id) ==
    /\ LockFree
    /\ IF IndexOfId(Streams, id) # 0
       THEN /\ State' = [State EXCEPT !.Streams = SetActiveMem(Streams, id)]
            /\ writer' = p
            /\ Called(p, l, "SetActive", "")
            /\ pc' = [pc EXCEPT ![p] = "save"]
       ELSE /\ Called(p, l, "SetActive", "NotFound")
            /\ pc' = [pc EXCEPT ![p] = "ret"]
            /\ UNCHANGED <<State, writer>>
    /\ UNCHANGED <<files, now, nextId, fails>>

\* Store.SetBlocked(id, state) called by p: an absent id returns nil
\* without a Save.
SetBlockedCall(p, l, id, state) ==
    /\ LockFree
    /\ IF IndexOfId(Streams, id) # 0
       THEN /\ State' = [State EXCEPT !.Streams = SetBlockedMem(Streams, id, state)]
            /\ writer' = p
            /\ pc' = [pc EXCEPT ![p] = "save"]
       ELSE /\ pc' = [pc EXCEPT ![p] = "ret"]
            /\ UNCHANGED <<State, writer>>
    /\ Called(p, l, "SetBlocked", "")
    /\ UNCHANGED <<files, now, nextId, fails>>

\* Store.RemoveStream(id) called by p: the removal when the id is found,
\* and the Save in either case.
RemoveStreamCall(p, l, id) ==
    /\ LockFree
    /\ State' = [State EXCEPT !.Streams = RemoveStreamMem(Streams, id)]
    /\ writer' = p
    /\ Called(p, [l EXCEPT !.found = IndexOfId(Streams, id) # 0,
                            !.index = IndexOfId(Streams, id)], "RemoveStream", "")
    /\ pc' = [pc EXCEPT ![p] = "save"]
    /\ UNCHANGED <<files, now, nextId, fails>>

\* Mutant of FreshId: the identifier is the record's position.
FreshIdByPosition == Len(Streams) + 1

\* uuid.NewUUID(): an identifier never returned before.
FreshId == nextId

\* Store.AddStream(stream) called by p; uuid.NewUUID() may fail.
AddStreamCall(p, l, stream) ==
    /\ LockFree
    /\ \/ /\ State' = [State EXCEPT !.Streams =
                          Append(Streams, [stream EXCEPT !.Id = FreshId])]
          /\ nextId' = nextId + 1
          /\ writer' = p
          /\ Called(p, [l EXCEPT !.id = FreshId], "AddStream", "")
          /\ pc' = [pc EXCEPT ![p] = "save"]
       \/ /\ Called(p, l, "AddStream", "uuid")
          /\ pc' = [pc EXCEPT ![p] = "ret"]
          /\ UNCHANGED <<State, writer, nextId>>
    /\ UNCHANGED <<files, now, fails>>

(* ----------------------- reads without the lock ------------------------- *)
\* The RemoveStream calls of others that found their record and are inside
\* their critical section: the slots from index on were shifted left and
\* the last slot of the slice a reader ranges over was set to nil.
Shifting(p) ==
    {q \in Workers \ {p} : writer = q /\ loc[q].call = "RemoveStream" /\ loc[q].found}

\* A loop over store.State.Streams that runs without the lock and returns
\* at slot stop (0: it runs to the end) can reach the nil slot: it began
\* before the shift and its slot is not one the shift left in place.
NilReached(p, stop) ==
    \E q \in Shifting(p) : stop = 0 \/ stop >= loc[q].index

\* The first record of s, other than id's, that is active on (app, name);
\* 0 if none.
FirstOther(s, app, name, id) ==
    LET M == {i \in 1..Len(s) :
                 /\ s[i].Application = app /\ s[i].Name = name
                 /\ s[i].Active = TRUE /\ s[i].Id # id}
    IN IF M = {} THEN 0 ELSE CHOOSE i \in M : \A j \in M : i <= j

\* The revoke step's loops can reach the nil slot.
DropNilReached(p) ==
    LET k == GetStreamById(Streams, loc[p].id)
    IN /\ State.CtrlUrl # ""
       /\ \/ NilReached(p, k)
          \/ /\ k # 0 /\ Streams[k].Active
             /\ NilReached(p, FirstOther(Streams, Streams[k].Application,
                                         Streams[k].Name, loc[p].id))

\* stream.Id of a nil *storage.Stream: the goroutine panics.  net/http
\* recovers a handler's panic and closes the connection without an answer;
\* the sweeper's goroutine has no recover and the process exits.
Panic(p) ==
    IF p = Sweeper
    THEN /\ State' = ZeroState
         /\ writer' = "none"
         /\ pc' = [q \in Procs |-> IF q = Main THEN "boot" ELSE "idle"]
         /\ loc' = [q \in Procs |-> Loc0]
    ELSE /\ loc' = [loc EXCEPT ![p].err = "panic"]
         /\ pc' = [pc EXCEPT ![p] = "done"]
         /\ UNCHANGED <<State, writer>>

(* --------------------------- publish, unpublish ------------------------- *)
\* The handlers that take a request before p does when they are free.
Before(p) == IF p = "h2" THEN {"h1"} ELSE {}

\* A request is taken by the first free handler (net/http starts a goroutine
\* per request; which one is no matter), within the budget when requests are
\* counted.
Accept(p, In) ==
    /\ Serving /\ pc[p] = "idle"
    /\ \A q \in Before(p) : pc[q] # "idle"
    /\ IF In.counted
       THEN reqs < MaxRequests /\ reqs' = reqs + 1
       ELSE UNCHANGED reqs

\* PublishHandler: r.ParseForm() fails, 401 and return before Auth.
PublishParseError(p, In) ==
    /\ Accept(p, In)
    /\ loc' = [loc EXCEPT ![p] =
           [Loc0 EXCEPT !.op = "publish", !.call = "ParseForm", !.err = "ParseForm",
                        !.status = StatusUnauthorized]]
    /\ pc' = [pc EXCEPT ![p] = "done"]
    /\ UNCHANGED <<State, files, writer, now, nextId, fails>>

\* PublishHandler: store.Auth under the shared lock.
PublishAuth(p, In) ==
    /\ Accept(p, In)
    /\ writer = "none"
    /\ \E app \in In.apps, name \in In.names, key \in In.keys :
          LET r == Auth(Streams, app, name, key)
          IN loc' = [loc EXCEPT ![p] =
                 [Loc0 EXCEPT !.op = "publish", !.call = "Auth", !.app = app,
                              !.name = name, !.key = key, !.id = r.id,
                              !.reason = r.reason,
                              !.err = IF r.reason = "granted" THEN "" ELSE r.reason]]
    /\ pc' = [pc EXCEPT ![p] = "pub_authed"]
    /\ UNCHANGED <<State, files, writer, now, nextId, fails>>

\* Mutant of PublishStatus: a busy stream is answered like a blocked one.
PublishStatusBusyAsBlocked(reason) ==
    IF reason = "unauthorized" THEN StatusUnauthorized ELSE StatusForbidden

\* PublishHandler's switch on the authError's reason.
PublishStatus(reason) ==
    IF reason = "unauthorized" THEN StatusUnauthorized
    ELSE IF reason = "busy" THEN StatusConflict
    ELSE StatusForbidden

\* PublishHandler: Auth failed, http.Error and return.
PublishDeny(p) ==
    /\ pc[p] = "pub_authed" /\ loc[p].err # ""
    /\ loc' = [loc EXCEPT ![p].status = PublishStatus(loc[p].err)]
    /\ pc' = [pc EXCEPT ![p] = "done"]
    /\ UNCHANGED <<State, files, writer, now, nextId, fails, reqs>>

\* PublishHandler: store.SetActive(id).
PublishSetActive(p) ==
    /\ pc[p] = "pub_authed" /\ loc[p].err = ""
    /\ SetActiveCall(p, loc[p], loc[p].id)
    /\ UNCHANGED reqs

\* PublishHandler returns after SetActive, logging its error if any: the
\* answer is the default 200.
PublishReturn(p) ==
    /\ pc[p] = "ret" /\ loc[p].op = "publish"
    /\ loc' = [loc EXCEPT ![p].status = StatusOK]
    /\ pc' = [pc EXCEPT ![p] = "done"]
    /\ UNCHANGED <<State, files, writer, now, nextId, fails, reqs>>

\* UnpublishHandler: store.SetInactive(app, name).
UnpublishSetInactive(p, In) ==
    /\ Accept(p, In)
    /\ \E app \in In.apps, name \in In.names :
          SetInactiveCall(p, [Loc0 EXCEPT !.op = "unpublish"], app, name)

UnpublishReturn(p) ==
    /\ pc[p] = "ret" /\ loc[p].op = "unpublish"
    /\ loc' = [loc EXCEPT ![p].status =
                  IF loc[p].err # "" THEN StatusUnauthorized ELSE StatusOK]
    /\ pc' = [pc EXCEPT ![p] = "done"]
    /\ UNCHANGED <<State, files, writer, now, nextId, fails, reqs>>

\* The request is answered; the handler's goroutine ends.
Done(p) ==
    /\ pc[p] = "done"
    /\ pc' = [pc EXCEPT ![p] = "idle"]
    /\ loc' = [loc EXCEPT ![p] = Loc0]
    /\ UNCHANGED <<State, files, writer, now, nextId, fails, reqs>>


(* ------------------------- control-plane revoke ------------------------- *)
\* Mutant of AfterDrop: the operation is given up after the revoke step.
AfterDropAborts(op) == "done"

\* Where a call path goes on after the revoke step returned.
AfterDrop(op) == IF op = "block" THEN "blk_done" ELSE "remove"

\* Mutant of DropOutcome: the other records of the (application, name) are
\* not looked at.
DropOutcomeIgnoresOthers(st, id) ==
    LET s == st.Streams
        k == GetStreamById(s, id)
    IN IF st.CtrlUrl = "" THEN "notset"
       ELSE IF k = 0 THEN "notfound"
       ELSE IF s[k].Active = FALSE THEN "inactive"
       ELSE "request"

\* Mutant of DropOutcome: the control URL is not looked at.
DropOutcomeIgnoresUrl(st, id) ==
    LET s == st.Streams
        k == GetStreamById(s, id)
    IN IF k = 0 THEN "notfound"
       ELSE IF s[k].Active = FALSE THEN "inactive"
       ELSE IF \E i \in 1..Len(s) :
                  /\ s[i].Application = s[k].Application /\ s[i].Name = s[k].Name
                  /\ s[i].Active = TRUE /\ s[i].Id # id
            THEN "superseded"
       ELSE "request"

\* The checks of ReqDropStreamPublisher / DropStreamPublisher before the
\* outbound request, in the code's order.
DropOutcome(st, id) ==
    LET s == st.Streams
        k == GetStreamById(s, id)
    IN IF st.CtrlUrl = "" THEN "notset"
       ELSE IF k = 0 THEN "notfound"
       ELSE IF s[k].Active = FALSE THEN "inactive"
       ELSE IF \E i \in 1..Len(s) :
                  /\ s[i].Application = s[k].Application /\ s[i].Name = s[k].Name
                  /\ s[i].Active = TRUE /\ s[i].Id # id
            THEN "superseded"
       ELSE "request"

\* Mutant of ReqDropReturn: nil whatever happened.
ReqDropReturnNil(op, outcome) == ""

\* What the revoke step returned to its caller when it ended with outcome:
\* DropStreamPublisher (called by Expire) returns nothing,
\* ReqDropStreamPublisher returns nil after a 200 and an nginxControlError
\* otherwise.
ReqDropReturn(op, outcome) ==
    IF op = "expire" THEN ""
    ELSE IF outcome = "dropped" THEN ""
    ELSE "nginxControlError"

\* ReqDropStreamPublisher / DropStreamPublisher up to the outbound request:
\* the control URL, the record, its active flag and the other records of
\* its (application, name) are read without the lock.
DropCheck(p) ==
    /\ pc[p] = "drop"
    /\ \/ LET k == GetStreamById(Streams, loc[p].id)
              outcome == DropOutcome(State, loc[p].id)
          IN /\ IF outcome = "request"
                THEN /\ loc' = [loc EXCEPT ![p].app = Streams[k].Application,
                                           ![p].name = Streams[k].Name,
                                           ![p].drop = "request",
                                           ![p].sent = @ + 1]
                     /\ pc' = [pc EXCEPT ![p] = "drop_req"]
                ELSE /\ loc' = [loc EXCEPT ![p].drop = outcome,
                                           ![p].err = ReqDropReturn(loc[p].op, outcome)]
                     /\ pc' = [pc EXCEPT ![p] = AfterDrop(loc[p].op)]
             /\ UNCHANGED <<State, writer>>
       \/ DropNilReached(p) /\ Panic(p)
    /\ UNCHANGED <<files, now, nextId, fails, reqs>>

\* http.Get returned: a transport failure, a non-200 answer, or 200.
DropResponse(p) ==
    /\ pc[p] = "drop_req"
    /\ \/ \E r \in {"unreachable", "denied"} :
             /\ loc' = [loc EXCEPT ![p].drop = r,
                                   ![p].err = ReqDropReturn(loc[p].op, r)]
             /\ pc' = [pc EXCEPT ![p] = AfterDrop(loc[p].op)]
       \/ /\ loc' = [loc EXCEPT ![p].drop = "ok"]
          /\ pc' = [pc EXCEPT ![p] = "drop_inact"]
    /\ UNCHANGED <<State, files, writer, now, nextId, fails, reqs>>

\* After a 200: store.SetInactive(app, name).
DropSetInactive(p) ==
    /\ pc[p] = "drop_inact"
    /\ SetInactiveCall(p, loc[p], loc[p].app, loc[p].name)
    /\ UNCHANGED reqs

\* The revoke step returns (nil, from ReqDropStreamPublisher) whatever
\* SetInactive returned.
DropReturn(p) ==
    /\ pc[p] = "ret" /\ loc[p].call = "SetInactive"
    /\ loc[p].op \in {"remove", "block", "expire"}
    /\ loc' = [loc EXCEPT ![p].drop = "dropped",
                          ![p].err = ReqDropReturn(loc[p].op, "dropped")]
    /\ pc' = [pc EXCEPT ![p] = AfterDrop(loc[p].op)]
    /\ UNCHANGED <<State, files, writer, now, nextId, fails, reqs>>

(* ------------------------------- admin ---------------------------------- *)
\* AddHandler with a valid form: store.AddStream.
AddStream(p, In) ==
    /\ Accept(p, In)
    /\ Len(Streams) < MaxStreams /\ nextId <= MaxIds
    /\ \E app \in In.apps, c \in In.creds, e \in Expiries, b \in In.blocked :
          AddStreamCall(p, [Loc0 EXCEPT !.op = "add"], NewStream(NoId, app, c[1], c[2], e, b))

AddReturn(p) ==
    /\ pc[p] = "ret" /\ loc[p].op = "add"
    /\ loc' = [loc EXCEPT ![p].status =
                  IF loc[p].err # "" THEN StatusOK ELSE StatusSeeOther]
    /\ pc' = [pc EXCEPT ![p] = "done"]
    /\ UNCHANGED <<State, files, writer, now, nextId, fails, reqs>>

\* RemoveHandler: store.GetStreamById(id) and the reads of the record it
\* returned, without the lock.
RemoveLookup(p, In) ==
    /\ Accept(p, In)
    /\ \E id \in Ids :
          LET k == GetStreamById(Streams, id)
          IN \/ IF k = 0
                THEN /\ loc' = [loc EXCEPT ![p] =
                           [Loc0 EXCEPT !.op = "remove", !.call = "GetStreamById", !.id = id,
                                        !.err = "NotFound", !.status = StatusOK]]
                     /\ pc' = [pc EXCEPT ![p] = "done"]
                ELSE /\ loc' = [loc EXCEPT ![p] =
                           [Loc0 EXCEPT !.op = "remove", !.call = "GetStreamById", !.id = id,
                                        !.app = Streams[k].Application,
                                        !.name = Streams[k].Name]]
                     /\ pc' = [pc EXCEPT ![p] =
                                  IF Streams[k].Active THEN "drop" ELSE "remove"]
             \/ /\ NilReached(p, k)
                /\ loc' = [loc EXCEPT ![p] =
                       [Loc0 EXCEPT !.op = "remove", !.call = "GetStreamById", !.id = id,
                                    !.err = "panic"]]
                /\ pc' = [pc EXCEPT ![p] = "done"]
    /\ UNCHANGED <<State, files, writer, now, nextId, fails>>

\* RemoveHandler and Expire: store.RemoveStream(id).
RemoveStream(p) ==
    /\ pc[p] = "remove"
    /\ RemoveStreamCall(p, loc[p], loc[p].id)
    /\ UNCHANGED reqs

RemoveReturn(p) ==
    /\ pc[p] = "ret" /\ loc[p].op = "remove" /\ loc[p].call = "RemoveStream"
    /\ loc' = [loc EXCEPT ![p].status =
                  IF loc[p].err # "" THEN StatusOK ELSE StatusSeeOther]
    /\ pc' = [pc EXCEPT ![p] = "done"]
    /\ UNCHANGED <<State, files, writer, now, nextId, fails, reqs>>

\* BlockHandler: store.GetAppNameById(id), without the lock, and the new
\* blocked state from the form.
BlockLookup(p, In) ==
    /\ Accept(p, In)
    /\ \E id \in Ids, state \in BOOLEAN :
          LET r == GetAppNameById(Streams, id)
          IN \/ IF ~r.found
                THEN /\ loc' = [loc EXCEPT ![p] =
                           [Loc0 EXCEPT !.op = "block", !.call = "GetAppNameById", !.id = id,
                                        !.err = "NotFound", !.status = StatusOK]]
                     /\ pc' = [pc EXCEPT ![p] = "done"]
                ELSE /\ loc' = [loc EXCEPT ![p] =
                           [Loc0 EXCEPT !.op = "block", !.call = "GetAppNameById", !.id = id,
                                        !.app = r.app, !.name = r.name,
                                        !.newstate = ~state]]
                     /\ pc' = [pc EXCEPT ![p] = "blk_set"]
             \/ /\ NilReached(p, 0)
                /\ loc' = [loc EXCEPT ![p] =
                       [Loc0 EXCEPT !.op = "block", !.call = "GetAppNameById", !.id = id,
                                    !.err = "panic"]]
                /\ pc' = [pc EXCEPT ![p] = "done"]
    /\ UNCHANGED <<State, files, writer, now, nextId, fails>>

\* BlockHandler: store.SetBlocked(id, newstate).
BlockSetBlocked(p) ==
    /\ pc[p] = "blk_set"
    /\ SetBlockedCall(p, loc[p], loc[p].id, loc[p].newstate)
    /\ UNCHANGED reqs

\* BlockHandler after SetBlocked: the error page, the revoke step when the
\* record was blocked, or the redirect.
BlockAfterSet(p) ==
    /\ pc[p] = "ret" /\ loc[p].op = "block" /\ loc[p].call = "SetBlocked"
    /\ IF loc[p].err # ""
       THEN /\ loc' = [loc EXCEPT ![p].status = StatusOK]
            /\ pc' = [pc EXCEPT ![p] = "done"]
       ELSE IF loc[p].newstate = TRUE
       THEN /\ pc' = [pc EXCEPT ![p] = "drop"]
            /\ UNCHANGED loc
       ELSE /\ loc' = [loc EXCEPT ![p].status = StatusSeeOther]
            /\ pc' = [pc EXCEPT ![p] = "done"]
    /\ UNCHANGED <<State, files, writer, now, nextId, fails, reqs>>

BlockReturn(p) ==
    /\ pc[p] = "blk_done"
    /\ loc' = [loc EXCEPT ![p].status = StatusSeeOther]
    /\ pc' = [pc EXCEPT ![p] = "done"]
    /\ UNCHANGED <<State, files, writer, now, nextId, fails, reqs>>

(* ---------------------------- dumpscript --------------------------------- *)
\* DumpscriptHandler: store.RLock(), and the script's header is written.
DumpBegin(p, In) ==
    /\ Accept(p, In)
    /\ writer = "none"
    /\ loc' = [loc EXCEPT ![p] = [Loc0 EXCEPT !.op = "dumpscript"]]
    /\ pc' = [pc EXCEPT ![p] = "dump"]
    /\ UNCHANGED <<State, files, writer, now, nextId, fails>>

\* DumpscriptHandler: one line per record is written to the response (the
\* identifiers stand for the lines; a write returns within the server's
\* WriteTimeout), and the deferred RUnlock runs.
DumpReturn(p) ==
    /\ pc[p] = "dump"
    /\ loc' = [loc EXCEPT ![p].todo = [i \in 1..Len(Streams) |-> Streams[i].Id],
                          ![p].status = StatusOK]
    /\ pc' = [pc EXCEPT ![p] = "done"]
    /\ UNCHANGED <<State, files, writer, now, nextId, fails, reqs>>

DumpStep(p, In) == DumpBegin(p, In) \/ DumpReturn(p)

(* ------------------------------ sweeper --------------------------------- *)
\* Expire: the scan under the shared lock.
ExpireScan ==
    /\ Polling /\ pc[Sweeper] = "idle"
    /\ writer = "none"
    /\ loc' = [loc EXCEPT ![Sweeper] =
                  [Loc0 EXCEPT !.op = "expire", !.t = now, !.todo = ToDelete(Streams, now)]]
    /\ pc' = [pc EXCEPT ![Sweeper] = "exp_loop"]
    /\ UNCHANGED <<State, files, writer, now, nextId, fails, reqs>>

\* Mutant of ExpireLoop: RemoveStream is called without the revoke step.
ExpireLoopSkipsDrop ==
    /\ pc[Sweeper] = "exp_loop"
    /\ IF loc[Sweeper].todo = <<>>
       THEN /\ pc' = [pc EXCEPT ![Sweeper] = "idle"]
            /\ loc' = [loc EXCEPT ![Sweeper] = Loc0]
       ELSE /\ pc' = [pc EXCEPT ![Sweeper] = "remove"]
            /\ loc' = [loc EXCEPT ![Sweeper].id = Head(loc[Sweeper].todo),
                                  ![Sweeper].todo = Tail(loc[Sweeper].todo),
                                  ![Sweeper].drop = "", ![Sweeper].call = "",
                                  ![Sweeper].sent = 0]
    /\ UNCHANGED <<State, files, writer, now, nextId, fails, reqs>>

\* Expire: the next identifier of toDelete goes to the revoke step, or the
\* cycle ends.
ExpireLoop ==
    /\ pc[Sweeper] = "exp_loop"
    /\ IF loc[Sweeper].todo = <<>>
       THEN /\ pc' = [pc EXCEPT ![Sweeper] = "idle"]
            /\ loc' = [loc EXCEPT ![Sweeper] = Loc0]
       ELSE /\ pc' = [pc EXCEPT ![Sweeper] = "drop"]
            /\ loc' = [loc EXCEPT ![Sweeper].id = Head(loc[Sweeper].todo),
                                  ![Sweeper].todo = Tail(loc[Sweeper].todo),
                                  ![Sweeper].drop = "", ![Sweeper].call = "",
                                  ![Sweeper].sent = 0]
    /\ UNCHANGED <<State, files, writer, now, nextId, fails, reqs>>

\* Expire ignores what RemoveStream returned.
ExpireRemoved ==
    /\ pc[Sweeper] = "ret" /\ loc[Sweeper].call = "RemoveStream"
    /\ pc' = [pc EXCEPT ![Sweeper] = "exp_loop"]
    /\ loc' = [loc EXCEPT ![Sweeper].err = "", ![Sweeper].found = FALSE,
                          ![Sweeper].index = 0]
    /\ UNCHANGED <<State, files, writer, now, nextId, fails, reqs>>

(* ------------------------------ behaviours ------------------------------ *)
HandlerStep(p, In) ==
    \/ PublishParseError(p, In)
    \/ PublishAuth(p, In) \/ PublishDeny(p) \/ PublishSetActive(p) \/ PublishReturn(p)
    \/ UnpublishSetInactive(p, In) \/ UnpublishReturn(p)
    \/ AddStream(p, In) \/ AddReturn(p)
    \/ RemoveLookup(p, In) \/ RemoveReturn(p)
    \/ BlockLookup(p, In) \/ BlockSetBlocked(p) \/ BlockAfterSet(p) \/ BlockReturn(p)
    \/ Done(p)

\* Steps a handler and the sweeper share.
SharedStep(p) ==
    \/ DropCheck(p) \/ DropResponse(p) \/ DropSetInactive(p) \/ DropReturn(p)
    \/ RemoveStream(p)

SweeperStep == ExpireScan \/ ExpireLoop \/ ExpireRemoved

SaveStep(p) == SaveBegin(p) \/ SaveWrite(p) \/ SaveRename(p)

MainStep == NewStoreRead \/ NewStoreSecret \/ NewStoreReturn \/ SetCtrlUrl \/ MainServe

Next ==
    \/ \E p \in Handlers : HandlerStep(p, InConc)
    \/ \E p \in Workers : SharedStep(p)
    \/ \E p \in Procs : SaveAll(p)
    \/ SweeperStep
    \/ MainStep
    \/ Tick

\* Concurrent requests and the sweeper, every file system call succeeding.
Spec == Init /\ [][Next]_vars

\* A call path runs alone: every other worker is idle.
Quiet(p) == \A q \in Workers \ {p} : pc[q] = "idle"

NextSeq ==
    \/ \E p \in Handlers : Quiet(p) /\ HandlerStep(p, InSeq)
    \/ \E p \in Workers : Quiet(p) /\ SharedStep(p)
    \/ \E p \in Procs : SaveAll(p)
    \/ Quiet(Sweeper) /\ SweeperStep
    \/ MainStep
    \/ Tick

\* One request or sweeper cycle at a time, over all the request fields.
SpecSeq == Init /\ [][NextSeq]_vars

\* The steps of a publish request.
PublishStep(p, In) ==
    \/ PublishParseError(p, In)
    \/ PublishAuth(p, In) \/ PublishDeny(p) \/ PublishSetActive(p) \/ PublishReturn(p)
    \/ Done(p)

\* Every other worker is idle or serving a publish request.
QuietButPublish(p) ==
    \A q \in Workers \ {p} : pc[q] = "idle" \/ loc[q].op = "publish"

NextPub ==
    \/ NextSeq
    \/ \E p \in Handlers : QuietButPublish(p) /\ PublishStep(p, InSeq)

\* Publish requests overlap each other; everything else runs alone.
SpecPub == Init /\ [][NextPub]_vars

NextCrash ==
    \/ \E p \in Handlers : Quiet(p) /\ HandlerStep(p, InConc)
    \/ \E p \in Workers : Quiet(p) /\ SharedStep(p)
    \/ \E p \in Procs : SaveStep(p) \/ SaveFail(p)
    \/ Quiet(Sweeper) /\ SweeperStep
    \/ MainStep
    \/ Tick
    \/ Crash

\* One request or sweeper cycle at a time, with file system calls that fail
\* and the process killed at any step.
SpecCrash == Init /\ [][NextCrash]_vars

NextLive ==
    \/ \E p \in Handlers : Quiet(p) /\ HandlerStep(p, InConc)
    \/ \E p \in Workers : Quiet(p) /\ SharedStep(p)
    \/ \E p \in Procs : SaveAll(p)
    \/ Quiet(Sweeper) /\ SweeperStep
    \/ MainStep
    \/ Tick

\* main runs on, a request that was taken is served to its end, the ticker
\* keeps firing, a drop request returns, and a Save returns.
Fairness ==
    /\ WF_vars(MainStep)
    /\ WF_vars(\E p \in Handlers : Quiet(p) /\ HandlerStep(p, InConc))
    /\ WF_vars(\E p \in Workers : Quiet(p) /\ SharedStep(p))
    /\ WF_vars(\E p \in Procs : SaveAll(p))
    /\ WF_vars(Quiet(Sweeper) /\ SweeperStep)

\* One request or sweeper cycle at a time, every step that can be taken
\* eventually taken.
SpecLive == Init /\ [][NextLive]_vars /\ Fairness

\* A new request is taken while fewer than LockRequests were.
LockRequests == 2
LockBudget(p) == pc[p] = "idle" => reqs < LockRequests

NextLock ==
    \/ \E p \in Handlers : LockBudget(p) /\ HandlerStep(p, InConc)
    \/ \E p \in Handlers : LockBudget(p) /\ DumpStep(p, InConc)
    \/ \E p \in Workers : SharedStep(p)
    \/ \E p \in Procs : SaveAll(p)
    \/ SweeperStep
    \/ MainStep
    \/ Tick

\* A Save that was started returns, and so does a write to a response.
LockFairness ==
    /\ \A p \in Procs : WF_vars(SaveAll(p))
    /\ \A p \in Handlers : WF_vars(DumpReturn(p))

\* Concurrent requests, dumpscript requests among them, and the sweeper.
SpecLock == Init /\ [][NextLock]_vars /\ LockFairness

ShutdownStep == Interrupt \/ StopPolling \/ ShutdownServers \/ SweeperStop \/ Exit

NextStop ==
    \/ \E p \in Handlers : Quiet(p) /\ HandlerStep(p, InConc)
    \/ \E p \in Workers : Quiet(p) /\ SharedStep(p)
    \/ \E p \in Procs : SaveAll(p)
    \/ Quiet(Sweeper) /\ SweeperStep
    \/ MainStep
    \/ Tick
    \/ ShutdownStep

\* One request or sweeper cycle at a time, and the interrupt at any step.
SpecStop == Init /\ [][NextStop]_vars

\* The registries a remove request finds: up to RemoveLen records of one
\* (application, name), identifiers in the order they were issued, every
\* expiry and both flags.
RemoveLen == 3

RemoveRecords ==
    {[NewStream(id, "live", "s1", "k1", e, b) EXCEPT !.Active = a] :
        id \in 1..RemoveLen, e \in Expiries, b \in BOOLEAN, a \in BOOLEAN}

RemoveStreams(n) == {q \in [1..n -> RemoveRecords] : \A i \in 1..n : q[i].Id = i}

RemoveStates ==
    {[Secret |-> NewSecret, CtrlUrl |-> u, Streams |-> q] :
        u \in CtrlUrls, q \in UNION {RemoveStreams(n) : n \in 0..RemoveLen}}

\* The servers run over a registry that was saved.
InitRemove ==
    /\ State \in RemoveStates
    /\ files = [f \in {RealPath, TmpPath} |->
                  IF f = RealPath THEN Marshal(State) ELSE Absent]
    /\ writer = "none"
    /\ pc = [p \in Procs |-> IF p = Main THEN "serving" ELSE "idle"]
    /\ loc = [p \in Procs |-> Loc0]
    /\ now = 0
    /\ nextId = Len(State.Streams) + 1
    /\ fails = 0
    /\ reqs = 0

NextRemove ==
    \/ \E p \in Handlers :
          Quiet(p) /\ (RemoveLookup(p, InConc) \/ RemoveReturn(p) \/ Done(p))
    \/ \E p \in Workers : Quiet(p) /\ SharedStep(p)
    \/ \E p \in Procs : SaveAll(p)

\* Remove requests, one at a time, over every registry of up to RemoveLen
\* records.
SpecRemove == InitRemove /\ [][NextRemove]_vars

\* The values a record's fields take in a saved state: every kind of
\* expiry (never, zero, one and two varint groups), notes, both flags.
RoundExpiries == {Never, 0, 1, 300}
RoundNotes == {"", "note"}

RoundRecords ==
    {[NewStream(id, "live", "s1", "k1", e, b) EXCEPT !.Notes = t, !.Active = a] :
        id \in 1..MaxStreams, e \in RoundExpiries, t \in RoundNotes,
        b \in BOOLEAN, a \in BOOLEAN}

\* The registries of n records, identifiers in the order they were issued.
RoundStreams(n) == {q \in [1..n -> RoundRecords] : \A i \in 1..n : q[i].Id = i}

RoundStates ==
    {[Secret |-> NewSecret, CtrlUrl |-> u, Streams |-> q] :
        u \in CtrlUrls, q \in UNION {RoundStreams(n) : n \in 0..MaxStreams}}

\* main has loaded a registry and SetCtrlUrl has set the URL: the state is
\* about to be saved.
InitRound ==
    /\ State \in RoundStates
    /\ files = [f \in {RealPath, TmpPath} |->
                  IF f = RealPath THEN Marshal([State EXCEPT !.CtrlUrl = ""]) ELSE Absent]
    /\ writer = Main
    /\ pc = [p \in Procs |-> IF p = Main THEN "save" ELSE "idle"]
    /\ loc = [p \in Procs |->
                IF p = Main THEN [Loc0 EXCEPT !.op = "main", !.call = "SetCtrlUrl"]
                ELSE Loc0]
    /\ now = 0
    /\ nextId = Len(State.Streams) + 1
    /\ fails = 0
    /\ reqs = 0

NextRound == SaveAll(Main) \/ Crash \/ NewStoreRead

\* A registry of any field values is saved, the process is started again
\* and loads it.
SpecRound == InitRound /\ [][NextRound]_vars

(* ------------------------------ properties ------------------------------ *)
\* The step ends the process (a kill, or a panic no one recovers).
Exited == pc[Main] # "boot" /\ pc'[Main] = "boot"

\* The records of s whose application, name and key equal the inputs.
Matches(s, app, name, key) ==
    {i \in 1..Len(s) :
        s[i].Application = app /\ s[i].Name = name /\ s[i].AuthKey = key}

\* Another record of s[i]'s (application, name) is active.
OtherActive(s, i) ==
    \E j \in 1..Len(s) :
        /\ j # i
        /\ s[j].Application = s[i].Application /\ s[j].Name = s[i].Name
        /\ s[j].Active = TRUE

\* Record i of s is unblocked and is active or has no active rival.
Grantable(s, i) ==
    s[i].Blocked = FALSE /\ (s[i].Active = TRUE \/ ~OtherActive(s, i))

\* The smallest element of a non-empty set of indices.
First(M) == CHOOSE i \in M : \A j \in M : i <= j

\* The decision a handler holds after its Auth call.
Decision(p) == IF loc[p].err = "" THEN "granted" ELSE loc[p].err

\* C1 (as stated): in every reachable state, whatever the interleaving of
\* publish, unpublish, add, remove, block requests and sweeper cycles, at
\* most one record per (application, name) has its active flag set.
C1_AtMostOneActive ==
    \A i, j \in 1..Len(Streams) :
        ( /\ Streams[i].Application = Streams[j].Application
          /\ Streams[i].Name = Streams[j].Name
          /\ Streams[i].Active = TRUE /\ Streams[j].Active = TRUE ) => i = j

\* The decision C2 states: granted iff some exact match is grantable, else
\* blocked if some match is blocked, else busy if a match exists, else
\* unauthorized.
StatedDecision(s, app, name, key) ==
    LET M == Matches(s, app, name, key)
    IN IF \E i \in M : Grantable(s, i) THEN "granted"
       ELSE IF \E i \in M : s[i].Blocked = TRUE THEN "blocked"
       ELSE IF M # {} THEN "busy"
       ELSE "unauthorized"

\* The decision taken on the first exact match alone.
FirstMatchDecision(s, app, name, key) ==
    LET M == Matches(s, app, name, key)
    IN IF M = {} THEN "unauthorized"
       ELSE IF s[First(M)].Blocked = TRUE THEN "blocked"
       ELSE IF Grantable(s, First(M)) THEN "granted"
       ELSE "busy"

\* C2 (as stated): for every registry state, duplicates of one (application,
\* name, key) included, Auth answers granted iff an exact match exists that
\* is unblocked and is active or has no active rival, else blocked, else
\* busy, else unauthorized.
C2_AuthAsStated ==
    \A p \in Handlers :
        pc[p] = "pub_authed" =>
            Decision(p) = StatedDecision(Streams, loc[p].app, loc[p].name, loc[p].key)

\* C2 (amended): Auth's answer is the one the first exact match in
\* insertion order gives: unauthorized without a match, blocked when the
\* first match is blocked, granted when it is active or no other record of
\* its (application, name) is active, busy otherwise.
C2_AuthFirstMatch ==
    \A p \in Handlers :
        pc[p] = "pub_authed" =>
            Decision(p) = FirstMatchDecision(Streams, loc[p].app, loc[p].name, loc[p].key)

\* Auth answered blocked on the first of two records with the same
\* (application, name, key) while the second one was grantable.
C2_Witness ==
    \E p \in Handlers :
        /\ pc[p] = "pub_authed" /\ Decision(p) = "blocked"
        /\ \E i \in Matches(Streams, loc[p].app, loc[p].name, loc[p].key) :
              Grantable(Streams, i)

\* C3: Auth decides on the first record, in insertion order, whose
\* application, name and key equal the inputs: it returns that record's
\* identifier on granted, busy and blocked, the empty identifier on
\* unauthorized, and it changes no record (nor the file).
C3_AuthFirstMatchId ==
    [][\A p \in Handlers :
          (pc[p] = "idle" /\ pc'[p] = "pub_authed") =>
              LET M == Matches(Streams, loc'[p].app, loc'[p].name, loc'[p].key)
              IN /\ State' = State /\ files' = files
                 /\ IF M = {}
                    THEN loc'[p].id = NoId /\ loc'[p].err = "unauthorized"
                    ELSE /\ loc'[p].id = Streams[First(M)].Id
                         /\ loc'[p].err \in {"", "busy", "blocked"}
                         /\ loc'[p].err = "blocked" <=> Streams[First(M)].Blocked = TRUE]_vars

\* Auth answered busy and returned the identifier of the second of two
\* records of one (application, name).
C3_Witness ==
    \E p \in Handlers :
        /\ pc[p] = "pub_authed" /\ loc[p].err = "busy"
        /\ Len(Streams) = 2 /\ loc[p].id = Streams[2].Id

\* C4: at every step of a Save, a failure of a file system call and a kill
\* of the process included, the real path holds the previous complete
\* serialized state or the new one, never a partially written file: it
\* changes only by the rename of the fully written temporary file, to the
\* serialization of the state being saved, and a start after a kill loads
\* exactly what the real path holds.
C4_SaveAtomic ==
    [][/\ files'[RealPath].kind # "partial"
       /\ files'[RealPath] # files[RealPath] =>
             \E p \in Procs :
                /\ pc[p] = "save_rename" /\ pc'[p] = "ret"
                /\ files[TmpPath] = Marshal(State)
                /\ files'[RealPath] = Marshal(State)
       /\ (pc[Main] = "boot" /\ pc'[Main] = "ns_secret" /\ files[RealPath].kind = "data") =>
             Marshal(State') = files[RealPath]]_vars

\* The process was killed while Save was writing the temporary file, and
\* starts again with the complete state of an earlier Save on the real path.
C4_Witness ==
    /\ pc[Main] = "boot"
    /\ files[TmpPath].kind = "partial"
    /\ files[RealPath].kind = "data"
    /\ Len(Unmarshal(files[RealPath]).Streams) > 0

\* p's step is a SetInactive call that found an active record.
SetInactiveDone(p) ==
    /\ pc[p] \in {"idle", "drop_inact"}
    /\ pc'[p] = "save" /\ loc'[p].call = "SetInactive"

\* C5: a successful SetInactive(application, name) clears the active flag
\* of every record of that (application, name) and changes nothing else:
\* not a record of another (application, name), not a blocked flag, key,
\* expiry or identifier, not the number or the order of the records.
C5_SetInactiveClearsAll ==
    [][\A p \in Workers :
          SetInactiveDone(p) =>
              /\ Len(Streams') = Len(Streams)
              /\ \A i \in 1..Len(Streams) :
                    Streams'[i] =
                       IF /\ Streams[i].Application = loc'[p].app
                          /\ Streams[i].Name = loc'[p].name
                       THEN [Streams[i] EXCEPT !.Active = FALSE]
                       ELSE Streams[i]
              /\ State'.Secret = State.Secret /\ State'.CtrlUrl = State.CtrlUrl]_vars

\* SetInactive succeeded on one (application, name) while a record of
\* another name is still active.
C5_Witness ==
    \E p \in Workers :
        /\ pc[p] = "save" /\ loc[p].call = "SetInactive"
        /\ \E i, j \in 1..Len(Streams) :
              /\ Streams[i].Application = loc[p].app /\ Streams[i].Name = loc[p].name
              /\ Streams[i].Active = FALSE
              /\ Streams[j].Name # loc[p].name /\ Streams[j].Active = TRUE

\* C6: SetInactive(application, name) called when no record of that
\* (application, name) is active returns the NotFound error, leaves the
\* in-memory state unchanged and performs no Save (the file is not touched
\* and the call returns without reaching save).
C6_SetInactiveNotFound ==
    [][\A p \in Workers :
          ( /\ pc[p] \in {"idle", "drop_inact"}
            /\ pc'[p] # pc[p] /\ loc'[p].call = "SetInactive"
            /\ ~IsActiveByAppName(Streams, loc'[p].app, loc'[p].name) ) =>
              /\ loc'[p].err = "NotFound"
              /\ pc'[p] = "ret"
              /\ State' = State /\ files' = files /\ writer' = writer]_vars

\* An unpublish notification for a stream nobody publishes was answered
\* with the NotFound error.
C6_Witness ==
    \E p \in Handlers :
        /\ pc[p] = "ret" /\ loc[p].op = "unpublish"
        /\ loc[p].call = "SetInactive" /\ loc[p].err = "NotFound"
        /\ Len(Streams) > 0

\* p's step is a RemoveStream call with an identifier no record has.
RemoveAbsent(p) ==
    /\ pc[p] = "remove" /\ pc'[p] # "remove" /\ ~Exited
    /\ IndexOfId(Streams, loc[p].id) = 0

\* C7 (as stated): RemoveStream(id) with an identifier no record has fails
\* with NotFound (returns an error) and leaves the registry unchanged.
C7_RemoveAbsentFails ==
    [][\A p \in Workers :
          RemoveAbsent(p) => (loc'[p].err # "" /\ State' = State)]_vars

\* C7 (amended): RemoveStream(id) with an identifier no record has leaves
\* the records unchanged, goes on to Save the state and returns no error.
C7_RemoveAbsentSaves ==
    [][\A p \in Workers :
          RemoveAbsent(p) =>
              /\ State' = State
              /\ loc'[p].err = "" /\ loc'[p].found = FALSE
              /\ pc'[p] = "save" /\ writer' = p]_vars

\* RemoveStream is saving after it looked for an identifier that another
\* request had removed meanwhile.
C7_Witness ==
    \E p \in Workers :
        /\ pc[p] = "save" /\ loc[p].call = "RemoveStream" /\ loc[p].found = FALSE
        /\ Len(Streams) > 0

\* C8: SetActive(id) sets the active flag of the record with that
\* identifier and changes no other record or field; when no record has the
\* identifier it returns the NotFound error, changes nothing and performs
\* no Save.
C8_SetActiveById ==
    [][\A p \in Handlers :
          (pc[p] = "pub_authed" /\ loc[p].err = "" /\ pc'[p] # "pub_authed" /\ ~Exited) =>
              LET k == IndexOfId(Streams, loc[p].id)
              IN IF k # 0
                 THEN /\ Len(Streams') = Len(Streams)
                      /\ \A i \in 1..Len(Streams) :
                            Streams'[i] = IF i = k THEN [Streams[i] EXCEPT !.Active = TRUE]
                                          ELSE Streams[i]
                      /\ State'.Secret = State.Secret /\ State'.CtrlUrl = State.CtrlUrl
                      /\ pc'[p] = "save"
                 ELSE /\ loc'[p].err = "NotFound"
                      /\ State' = State /\ files' = files /\ writer' = writer
                      /\ pc'[p] = "ret"]_vars

\* SetActive returned NotFound: the record Auth granted was removed before
\* the handler called SetActive.
C8_Witness ==
    \E p \in Handlers :
        /\ pc[p] = "ret" /\ loc[p].call = "SetActive" /\ loc[p].err = "NotFound"

\* The identifiers of the records of s.
IdsOf(s) == {s[i].Id : i \in 1..Len(s)}

\* C9: whatever the interleaving of concurrent AddStream calls with the
\* other operations, every AddStream appends one record under an identifier
\* no record has and no earlier call was given, the identifiers in the
\* registry stay pairwise distinct, and no record is lost or overwritten:
\* while the process runs, only RemoveStream takes a record out.
C9_AddStreamFreshIds ==
    [][/\ \A i, j \in 1..Len(Streams') : Streams'[i].Id = Streams'[j].Id => i = j
       /\ \A i \in 1..Len(Streams') : Streams'[i].Id < nextId'
       /\ nextId' >= nextId
       /\ \A p \in Handlers :
             (pc[p] = "idle" /\ pc'[p] = "save" /\ loc'[p].op = "add") =>
                 /\ Len(Streams') = Len(Streams) + 1
                 /\ \A i \in 1..Len(Streams) : Streams'[i] = Streams[i]
                 /\ Streams'[Len(Streams')].Id = loc'[p].id
                 /\ loc'[p].id \notin IdsOf(Streams)
                 /\ loc'[p].id >= nextId
       /\ ((\A p \in Workers : pc[p] # "remove") /\ ~Exited) =>
             /\ Len(Streams') >= Len(Streams)
             /\ \A i \in 1..Len(Streams) : Streams'[i].Id = Streams[i].Id]_vars

\* Two AddStream requests overlapped and both records are in the registry.
C9_Witness ==
    /\ \A p \in Handlers : loc[p].op = "add" /\ loc[p].id # NoId
    /\ loc["h1"].id # loc["h2"].id
    /\ {loc[p].id : p \in Handlers} \subseteq IdsOf(Streams)

\* The records of s a sweep at time t keeps when it removes the records
\* whose expiry is at or before t.
KeptAtOrBefore(s, t) ==
    SelectSeq(s, LAMBDA r : r.AuthExpire = Never \/ r.AuthExpire > t)

\* The records of s a sweep at time t keeps when it removes the records
\* whose expiry is before t.
KeptBefore(s, t) ==
    SelectSeq(s, LAMBDA r : r.AuthExpire = Never \/ r.AuthExpire >= t)

\* C10 (as stated): a sweeper cycle at time T with nothing else running
\* removes exactly the records whose expiry is not -1 and is less than or
\* equal to T; every other record stays with all its fields unchanged.
C10_SweepAtOrBefore ==
    [][pc[Sweeper] # "idle" =>
          /\ KeptAtOrBefore(Streams', loc[Sweeper].t) = KeptAtOrBefore(Streams, loc[Sweeper].t)
          /\ pc'[Sweeper] = "idle" => Streams' = KeptAtOrBefore(Streams', loc[Sweeper].t)]_vars

\* C10 (amended): a sweeper cycle at time T with nothing else running
\* removes exactly the records whose expiry is not -1 and is strictly less
\* than T (a record whose expiry equals T stays); every other record stays
\* with all its fields unchanged.
C10_SweepBefore ==
    [][pc[Sweeper] # "idle" =>
          /\ KeptBefore(Streams', loc[Sweeper].t) = KeptBefore(Streams, loc[Sweeper].t)
          /\ pc'[Sweeper] = "idle" => Streams' = KeptBefore(Streams', loc[Sweeper].t)]_vars

\* The sweeper removed an expired record and a record that never expires
\* is still there.
C10_Witness ==
    /\ pc[Sweeper] = "ret" /\ loc[Sweeper].call = "RemoveStream" /\ loc[Sweeper].found
    /\ \E i \in 1..Len(Streams) : Streams[i].AuthExpire = Never

\* The outcomes with which the revoke step ends.
DropOutcomes ==
    {"notset", "notfound", "inactive", "superseded", "denied", "unreachable", "dropped"}

\* The outcomes of a revoke step that issued its request.
SentOutcomes == {"denied", "unreachable", "dropped"}

\* The record with identifier id exists and is active.
ActiveId(s, id) == IndexOfId(s, id) # 0 /\ s[IndexOfId(s, id)].Active = TRUE

\* Within a sweeper cycle the identifiers are taken one after another from
\* toDelete, and RemoveStream of an identifier starts only after the revoke
\* step of that identifier ended, having issued at most one request.
SweepOrder ==
    /\ (pc'[Sweeper] = "drop" /\ pc[Sweeper] # "drop") =>
          /\ pc[Sweeper] = "exp_loop"
          /\ loc[Sweeper].todo # <<>> /\ loc'[Sweeper].id = Head(loc[Sweeper].todo)
          /\ loc'[Sweeper].sent = 0
    /\ (pc'[Sweeper] = "remove" /\ pc[Sweeper] # "remove") =>
          /\ pc[Sweeper] \in {"drop", "drop_req", "ret"}
          /\ loc'[Sweeper].id = loc[Sweeper].id
          /\ loc'[Sweeper].drop \in DropOutcomes
    /\ (pc[Sweeper] = "remove" /\ pc'[Sweeper] # "remove") =>
          /\ loc[Sweeper].drop \in DropOutcomes
          /\ loc[Sweeper].sent = IF loc[Sweeper].drop \in SentOutcomes THEN 1 ELSE 0

DropChecked(p) == pc[p] = "drop" /\ pc'[p] # "drop"

\* C12: the revoke step issues a drop request for an identifier only if
\* its record exists, is active, and no other record of its (application,
\* name) is active; when the record is inactive, or another record of the
\* (application, name) is active, no request is issued and the registry
\* (and its file) is left unchanged.
C12_DropOnlySoleActive ==
    [][\A p \in Workers :
          /\ loc'[p].sent > loc[p].sent => (DropChecked(p) /\ pc'[p] = "drop_req")
          /\ DropChecked(p) =>
                LET k == IndexOfId(Streams, loc[p].id)
                IN /\ pc'[p] = "drop_req" =>
                         /\ k # 0 /\ Streams[k].Active = TRUE /\ ~OtherActive(Streams, k)
                         /\ loc'[p].sent = loc[p].sent + 1
                   /\ (k # 0 /\ (Streams[k].Active = FALSE \/ OtherActive(Streams, k))) =>
                         /\ pc'[p] # "drop_req" /\ loc'[p].sent = loc[p].sent
                         /\ State' = State /\ files' = files]_vars

\* An admin request met an active record whose (application, name) has
\* another active record: the revoke step ended without a request.
C12_Witness ==
    \E p \in Handlers :
        /\ loc[p].drop = "superseded" /\ loc[p].sent = 0
        /\ ActiveId(Streams, loc[p].id)

\* p's step is the revoke step finding no control URL configured.
DropNotConfigured(p) == DropChecked(p) /\ State.CtrlUrl = ""

\* C13 (as stated): with no control URL configured the revoke step is a
\* no-op that is not an error: no request, no change of the registry, and
\* no error reported to its caller, whatever the identifier and the state.
C13_NoUrlNoError ==
    [][\A p \in Workers :
          DropNotConfigured(p) =>
              /\ loc'[p].sent = loc[p].sent /\ pc'[p] # "drop_req"
              /\ State' = State /\ files' = files
              /\ loc'[p].err = ""]_vars

\* C13 (amended): with no control URL configured the revoke step issues no
\* request and changes nothing in the registry; DropStreamPublisher (the
\* sweeper's) returns nothing and ReqDropStreamPublisher (the admin
\* handlers') returns an nginxControlError, after which the caller goes on
\* with its operation: the removal, or the answer to the block request.
C13_NoUrlNoRequest ==
    [][\A p \in Workers :
          DropNotConfigured(p) =>
              /\ loc'[p].sent = loc[p].sent /\ pc'[p] # "drop_req"
              /\ State' = State /\ files' = files
              /\ loc'[p].drop = "notset"
              /\ loc'[p].err = IF p = Sweeper THEN "" ELSE "nginxControlError"
              /\ pc'[p] = IF loc[p].op = "block" THEN "blk_done" ELSE "remove"]_vars

\* With no control URL configured an admin request to remove an active
\* record went through the revoke step without a request.
C13_Witness ==
    \E p \in Handlers :
        /\ pc[p] = "remove" /\ loc[p].drop = "notset" /\ loc[p].sent = 0
        /\ State.CtrlUrl = "" /\ ActiveId(Streams, loc[p].id)

\* p's step is the answer to its drop request: a 200, or a failure.
DropAnswered(p) == pc[p] = "drop_req" /\ pc'[p] # "drop_req"

\* After a 200 the revoke step calls SetInactive, which leaves no record
\* of the (application, name) active, and then ends without an error; a
\* non-200 answer or a transport failure changes no record.
DropEffect ==
    \A p \in Workers :
        /\ DropAnswered(p) =>
              /\ State' = State /\ files' = files
              /\ pc'[p] = "drop_inact" <=> loc'[p].drop = "ok"
              /\ pc'[p] # "drop_inact" => loc'[p].drop \in {"denied", "unreachable"}
        /\ (pc[p] = "drop_inact" /\ pc'[p] # "drop_inact") =>
              /\ ~IsActiveByAppName(Streams', loc[p].app, loc[p].name)
              /\ ~ActiveId(Streams', loc[p].id)
        /\ (pc[p] = "ret" /\ loc[p].call = "SetInactive" /\ pc'[p] \in {"remove", "blk_done"}) =>
              /\ loc'[p].drop = "dropped" /\ loc'[p].err = ""
              /\ ~IsActiveByAppName(Streams', loc[p].app, loc[p].name)

\* C14 (as stated): when the revoke step issues a drop request, a 200
\* leaves the target record and every record of its (application, name)
\* inactive and the step reports success; a non-200 answer or a transport
\* failure leaves every active flag unchanged and the step reports an error.
C14_DropFailureReported ==
    [][/\ DropEffect
       /\ \A p \in Workers :
             (DropAnswered(p) /\ pc'[p] # "drop_inact") => loc'[p].err # ""]_vars

\* C14 (what the code does): as above, but after a non-200 answer or a
\* transport failure only ReqDropStreamPublisher (the admin handlers')
\* reports an error; DropStreamPublisher (the sweeper's) returns nothing.
C14_DropFailureReportedToAdmin ==
    [][/\ DropEffect
       /\ \A p \in Workers :
             (DropAnswered(p) /\ pc'[p] # "drop_inact") =>
                 loc'[p].err = IF p = Sweeper THEN "" ELSE "nginxControlError"]_vars

\* The relay refused an admin handler's drop request: the record is still
\* active and the revoke step returned an error.
C14_Witness ==
    \E p \in Handlers :
        /\ loc[p].drop = "denied" /\ loc[p].sent = 1 /\ loc[p].err = "nginxControlError"
        /\ ActiveId(Streams, loc[p].id)

\* p's step ends its revoke step, with whatever outcome.
DropEnded(p) ==
    /\ pc[p] \in {"drop", "drop_req", "ret"} /\ loc[p].op \in {"remove", "block", "expire"}
    /\ IF pc[p] = "ret" THEN loc[p].call = "SetInactive" /\ pc'[p] # "ret"
       ELSE pc'[p] \notin {"drop", "drop_req", "drop_inact"}

\* C15: a control-plane failure never rolls back or prevents the registry
\* mutation of the operation that triggered it: whatever the outcome of
\* the revoke step (not configured, not applicable, denied, unreachable,
\* dropped), after an admin block the record's blocked flag is set, and an
\* admin remove or a sweeper removal goes on to RemoveStream, after which
\* the record is absent.
C15_RevokeNeverUndoes ==
    [][\A p \in Workers :
          /\ DropEnded(p) =>
                /\ loc'[p].drop \in DropOutcomes
                /\ Len(Streams') = Len(Streams)
                /\ \A i \in 1..Len(Streams) :
                      Streams'[i] = [Streams[i] EXCEPT !.Active = Streams'[i].Active]
                /\ IF loc[p].op = "block"
                   THEN /\ pc'[p] = "blk_done"
                        /\ IndexOfId(Streams', loc[p].id) # 0
                        /\ Streams'[IndexOfId(Streams', loc[p].id)].Blocked = TRUE
                   ELSE pc'[p] = "remove" /\ loc'[p].id = loc[p].id
          /\ (pc[p] = "remove" /\ pc'[p] # "remove") =>
                /\ pc'[p] = "save"
                /\ IndexOfId(Streams', loc[p].id) = 0]_vars

\* The relay could not be reached, and the admin request went on to
\* remove the record.
C15_Witness ==
    \E p \in Handlers :
        /\ pc[p] = "save" /\ loc[p].call = "RemoveStream" /\ loc[p].found
        /\ loc[p].drop = "unreachable"
        /\ IndexOfId(Streams, loc[p].id) = 0

\* p's step reads the registry outside a mutating call: Auth, Expire's
\* scan, GetStreamById, GetAppNameById, or the revoke step's checks.
RegistryRead(p) ==
    \/ pc[p] = "idle" /\ loc'[p].call \in {"Auth", "GetStreamById", "GetAppNameById"}
    \/ pc[p] = "idle" /\ pc'[p] = "exp_loop"
    \/ pc[p] = "drop" /\ pc'[p] # "drop"

\* C16: no read of the registry happens while another execution context
\* holds the exclusive lock: GetStreamById, GetAppNameById, the revoke
\* step's checks and the admin handlers' lookups all run under the lock.
C16_ReadsUnderLock ==
    [][\A p \in Workers : RegistryRead(p) => writer = "none"]_vars

\* The Store methods that mutate the registry.
MutatingCalls ==
    {"SetActive", "SetInactive", "SetBlocked", "AddStream", "RemoveStream", "SetCtrlUrl"}

SavePcs == {"save", "save_write", "save_rename"}

\* p's step enters a mutating call and runs it up to its Save or its return.
CallStep(p) ==
    /\ pc[p] \notin SavePcs \cup {"ret"}
    /\ pc'[p] \in {"save", "ret"}
    /\ loc'[p].call \in MutatingCalls

\* A Save of a mutating call runs under the caller's exclusive lock and is
\* over when the call has returned; a returned call completed at most one.
SaveInsideLock ==
    \A p \in Procs :
        loc[p].call \in MutatingCalls =>
            /\ pc[p] \in SavePcs => (writer = p /\ loc[p].saves = 0 /\ loc[p].err = "")
            /\ pc[p] = "ret" => (writer # p /\ loc[p].saves <= 1)
            /\ (pc[p] = "ret" /\ loc[p].saves = 1) =>
                   (loc[p].err = "" /\ files[RealPath] = Marshal(State))
            /\ (pc[p] = "ret" /\ loc[p].err = "PersistenceFailure") => loc[p].saves = 0

\* C17 (as stated): every mutating call that returns without an error
\* completed exactly one Save, started and finished under the caller's
\* exclusive lock before the call returned; a call that changes nothing in
\* memory performs no Save.
C17_SaveIffChanged ==
    [][/\ SaveInsideLock'
       /\ \A p \in Procs :
             /\ (pc'[p] = "ret" /\ loc'[p].call \in MutatingCalls /\ loc'[p].err = "") =>
                   loc'[p].saves = 1
             /\ CallStep(p) => (State' = State => pc'[p] = "ret")]_vars

\* C17 (amended): a mutating call performs at most one Save, started and
\* finished under the caller's exclusive lock before the call returns.  A
\* call that returns without an error completed exactly one, except
\* SetBlocked of an identifier no record has, which returns nil without a
\* Save; a call that returns without a Save changed nothing in memory.  A
\* call may Save without having changed anything (SetActive of an active
\* record, SetBlocked to the value the record has, RemoveStream of an
\* absent identifier, SetCtrlUrl to the same URL).
C17_OneSaveInsideLock ==
    [][/\ SaveInsideLock'
       /\ \A p \in Procs :
             /\ (pc'[p] = "ret" /\ loc'[p].call \in MutatingCalls /\ loc'[p].err = "") =>
                   \/ loc'[p].saves = 1
                   \/ /\ loc'[p].call = "SetBlocked" /\ loc'[p].saves = 0
                      /\ CallStep(p) /\ IndexOfId(Streams, loc'[p].id) = 0
             /\ (CallStep(p) /\ pc'[p] = "ret") => (State' = State /\ writer' = writer)
             /\ (CallStep(p) /\ pc'[p] = "save") => (writer = "none" /\ writer' = p)]_vars

\* SetActive has returned nil after its one Save: the record is active in
\* memory and in the file, and the lock is free.
C17_Witness ==
    \E p \in Handlers :
        /\ pc[p] = "ret" /\ loc[p].call = "SetActive" /\ loc[p].err = ""
        /\ loc[p].saves = 1 /\ writer = "none"
        /\ ActiveId(Streams, loc[p].id)
        /\ files[RealPath] = Marshal(State)

\* p's step is the failure of a file system call of its Save.
SaveFailed(p) ==
    /\ pc[p] \in {"save_write", "save_rename"} /\ pc'[p] = "ret"
    /\ fails' = fails + 1

\* C18: when the Save inside a mutating call fails (the write of the
\* temporary file or the rename), the call returns an error to its caller,
\* the mutation stays applied in memory, and the state file is what the
\* last successful Save left.
C18_SaveFailureKeepsMutation ==
    [][\A p \in Procs :
          (SaveFailed(p) /\ loc[p].call \in MutatingCalls) =>
              /\ loc'[p].err # "" /\ loc'[p].call = loc[p].call
              /\ loc'[p].saves = 0
              /\ State' = State
              /\ files'[RealPath] = files[RealPath]
              /\ files'[RealPath] # Partial
              /\ writer' = "none"]_vars

\* SetActive returned an error: the record is active in memory and
\* inactive in the state file.
C18_Witness ==
    \E p \in Handlers :
        /\ pc[p] = "ret" /\ loc[p].call = "SetActive"
        /\ loc[p].err = "PersistenceFailure"
        /\ ActiveId(Streams, loc[p].id)
        /\ files[RealPath].kind = "data"
        /\ ~ActiveId(Unmarshal(files[RealPath]).Streams, loc[p].id)

\* p's step completes a Save.
SaveDone(p) ==
    /\ pc[p] \in SavePcs /\ pc'[p] = "ret"
    /\ loc'[p].saves = loc[p].saves + 1

\* The step is NewStore's load of an existing state file.
Loaded ==
    /\ pc[Main] = "boot" /\ pc'[Main] = "ns_secret"
    /\ files[RealPath].kind = "data"

\* C19: for every registry state, a successful Save followed by a load
\* yields a state equal in every field (secret, control-plane URL, and for
\* each record in order: identifier, application, name, key, expiry,
\* notes, blocked, active), an expiry of -1 (never) and an empty control
\* URL included: the file a Save leaves decodes to the state that was
\* saved, and a load puts into memory what the file decodes to.
C19_RoundTrip ==
    [][/\ \A p \in Procs :
             SaveDone(p) =>
                 /\ files'[RealPath].kind = "data"
                 /\ Unmarshal(files'[RealPath]) = State
                 /\ State' = State
       /\ Loaded =>
             /\ State' = Unmarshal(files[RealPath])
             /\ Marshal(State') = files[RealPath]
             /\ files'[RealPath] = files[RealPath]]_vars

\* A registry with an empty control URL, a record that never expires, has
\* notes and is active, and a record that expires at 300, has been saved
\* and loaded again.
C19_Witness ==
    /\ pc[Main] = "ns_secret"
    /\ State.Secret = NewSecret /\ State.CtrlUrl = ""
    /\ \E i \in 1..Len(Streams) :
          /\ Streams[i].AuthExpire = Never /\ Streams[i].Notes # ""
          /\ Streams[i].Active /\ ~Streams[i].Blocked
    /\ \E i \in 1..Len(Streams) : Streams[i].AuthExpire = 300 /\ Streams[i].Blocked
    /\ files[RealPath] = Marshal(State)

\* The step is NewStore's read of the state file.
StoreRead == pc[Main] = "boot" /\ pc'[Main] # "boot"

\* The step is NewStore's return to main after it generated a secret (the
\* state file was missing).
FreshStoreReturned ==
    /\ pc[Main] = "ret" /\ loc[Main].call = "NewStore"
    /\ pc'[Main] = "set_ctrl"

\* What NewStore does with the state file it finds, and that nothing is
\* served after it failed.
StartupReads ==
    /\ StoreRead =>
          IF files[RealPath].kind = "absent"
          THEN pc'[Main] = "ns_secret" /\ State' = ZeroState
          ELSE IF files[RealPath].kind = "data"
          THEN pc'[Main] = "ns_secret" /\ State' = Unmarshal(files[RealPath])
          ELSE pc'[Main] = "fatal"
    /\ pc[Main] = "fatal" =>
          /\ pc'[Main] \in {"fatal", "boot"}
          /\ State = ZeroState /\ State' = ZeroState
          /\ \A p \in Workers : pc[p] = "idle" /\ pc'[p] = "idle"

\* C20: at startup a missing state file is not an error: the registry
\* starts with no records and a freshly generated non-empty secret, and
\* that state is in the state file when NewStore returns; a file that
\* exists but cannot be read or deserialized makes NewStore fail, and no
\* registry is served.
C20_FreshStatePersisted ==
    [][/\ StartupReads
       /\ FreshStoreReturned =>
             /\ Streams = <<>> /\ State.Secret # ""
             /\ files[RealPath] = Marshal(State)]_vars

\* C20 (what the code does): as above, but when NewStore returns the fresh
\* state is in the state file only if its Save did not fail; NewStore
\* returns the store without an error either way.
C20_FreshStateUnlessSaveFails ==
    [][/\ StartupReads
       /\ FreshStoreReturned =>
             /\ Streams = <<>> /\ State.Secret # ""
             /\ State' = State
             /\ IF loc[Main].err = ""
                THEN files[RealPath] = Marshal(State)
                ELSE files[RealPath] = Absent]_vars

\* The step is the process's exit at the end of a shutdown.
ProcessExit == pc[Main] = "shutdown" /\ pc'[Main] = "exited"

\* p is inside a critical section, between its change in memory and the
\* end of its Save.
InCriticalSection(p) == pc[p] \in SavePcs

\* The servers are shut down only after the sweeper's loop was told to
\* stop, and the process exits only after the servers were shut down.
StopOrder ==
    /\ (pc'[Main] = "shutdown" /\ pc[Main] # "shutdown") => pc[Main] = "polling_stopped"
    /\ (pc'[Main] = "polling_stopped" /\ pc[Main] # "polling_stopped") =>
          pc[Main] = "interrupted"
    /\ (pc'[Main] = "exited" /\ pc[Main] # "exited") => pc[Main] = "shutdown"

\* C21: on a shutdown signal the sweeper's loop is told to stop before the
\* HTTP servers are shut down, and the process never exits while a call (a
\* request handler's or a sweeper cycle's) is inside a critical section,
\* between its change in memory and the end of its Save.
C21_ShutdownWaits ==
    [][/\ StopOrder
       /\ ProcessExit =>
             /\ writer = "none"
             /\ \A p \in Workers : ~InCriticalSection(p)]_vars

\* C21 (what the code does): the order of the shutdown steps holds, and
\* the exit leaves the state file as the last completed Save wrote it,
\* whatever the calls in flight had changed in memory.
C21_ShutdownOrder ==
    [][/\ StopOrder
       /\ ProcessExit => files' = files]_vars

\* p's step writes the answer of a publish request (or returns, leaving
\* the default 200).
PublishAnswered(p) ==
    /\ pc[p] # "done" /\ pc'[p] = "done"
    /\ loc'[p].op = "publish"

\* The status the statement gives a publish request by Auth's decision.
StatedStatus(reason) ==
    IF reason = "granted" THEN StatusOK
    ELSE IF reason = "unauthorized" THEN StatusUnauthorized
    ELSE IF reason = "busy" THEN StatusConflict
    ELSE StatusForbidden

\* C22: a publish request is answered 200 exactly when Auth returned
\* granted, 401 when unauthorized, 409 when busy and 403 when blocked, and
\* a request answered 401, 403 or 409 has changed no registry state and
\* performed no Save.
C22_PublishStatus ==
    [][\A p \in Handlers :
          /\ (PublishAnswered(p) /\ loc'[p].call # "ParseForm") =>
                /\ loc'[p].reason \in {"granted", "unauthorized", "busy", "blocked"}
                /\ loc'[p].status = StatedStatus(loc'[p].reason)
          /\ (PublishAnswered(p) /\ loc'[p].status # StatusOK) =>
                /\ loc'[p].status \in {StatusUnauthorized, StatusConflict, StatusForbidden}
                /\ loc'[p].call \in {"Auth", "ParseForm"} /\ loc'[p].saves = 0
                /\ State' = State /\ files' = files /\ writer' = writer
          /\ (pc[p] = "idle" /\ loc'[p].call = "Auth") =>
                State' = State /\ files' = files /\ writer' = writer]_vars

\* A publish request for a name another record is streaming on has been
\* answered 409.
C22_Witness ==
    \E p \in Handlers :
        /\ pc[p] = "done" /\ loc[p].op = "publish"
        /\ loc[p].reason = "busy" /\ loc[p].status = StatusConflict
        /\ \E i \in 1..Len(Streams) :
              /\ Streams[i].Application = loc[p].app /\ Streams[i].Name = loc[p].name
              /\ Streams[i].Active /\ Streams[i].Id # loc[p].id

\* The sweeper's RemoveStream step takes out at most the record it
\* collected, and that record was expired at the cycle's scan.
SweeperRemovesCollected ==
    (pc[Sweeper] = "remove" /\ pc'[Sweeper] = "save") =>
        /\ \A i \in 1..Len(Streams) :
              Streams[i].Id \notin IdsOf(Streams') =>
                  (Streams[i].Id = loc[Sweeper].id /\ Expired(Streams[i], loc[Sweeper].t))
        /\ \A i \in 1..Len(Streams') :
              \E j \in 1..Len(Streams) : Streams'[i] = Streams[j]

\* C23: under any interleaving of a sweeper cycle with publish, unpublish
\* and admin operations, the sweeper removes only records that were
\* expired at its scan, and its revoke step never clears the active flag
\* of a record that was not expired at that scan.
C23_SweeperTouchesOnlyExpired ==
    [][/\ SweeperRemovesCollected
       /\ (pc[Sweeper] = "drop_inact" /\ pc'[Sweeper] # "drop_inact" /\ ~Exited) =>
             \A i \in 1..Len(Streams) :
                 (Streams[i].Active /\ ~Streams'[i].Active) =>
                     Expired(Streams[i], loc[Sweeper].t)]_vars

\* C23 (what the code does): the sweeper removes only records that were
\* expired at its scan; its revoke step clears the active flag of every
\* record of the collected record's (application, name), expired or not.
C23_SweeperRemovesOnlyExpired ==
    [][/\ SweeperRemovesCollected
       /\ (pc[Sweeper] = "drop_inact" /\ pc'[Sweeper] # "drop_inact" /\ ~Exited) =>
             /\ Len(Streams') = Len(Streams)
             /\ \A i \in 1..Len(Streams) :
                   Streams'[i] =
                       IF /\ Streams[i].Application = loc[Sweeper].app
                          /\ Streams[i].Name = loc[Sweeper].name
                       THEN [Streams[i] EXCEPT !.Active = FALSE] ELSE Streams[i]]_vars

\* The registry in memory holds a record with identifier id whose expiry
\* the clock has passed.
PastExpiry(id) ==
    /\ IndexOfId(Streams, id) # 0
    /\ Streams[IndexOfId(Streams, id)].AuthExpire # Never
    /\ Streams[IndexOfId(Streams, id)].AuthExpire < now

\* C24: every record whose expiry is not the never sentinel is eventually
\* absent from the registry in memory once the clock has passed its expiry
\* (sweeper ticks keep occurring, the lock is granted, drop requests
\* return), and the sweeper never removes a record whose expiry is the
\* never sentinel.
C24_ExpiredEventuallyRemoved ==
    /\ \A id \in Ids : PastExpiry(id) ~> (IndexOfId(Streams, id) = 0)
    /\ [][(pc[Sweeper] = "remove" /\ pc'[Sweeper] = "save") =>
             \A i \in 1..Len(Streams) :
                 Streams[i].AuthExpire = Never => Streams[i].Id \in IdsOf(Streams')]_vars

\* The sweeper has removed the expired record of a registry that also
\* holds a record that never expires.
C24_Witness ==
    /\ pc[Sweeper] = "ret" /\ loc[Sweeper].call = "RemoveStream" /\ loc[Sweeper].found
    /\ now > 0
    /\ \E i \in 1..Len(Streams) : Streams[i].AuthExpire = Never
    /\ \A i \in 1..Len(Streams) : ~Expired(Streams[i], now)

\* C25: once SetBlocked(id, true) has returned, no publish request sets
\* the active flag of record id from false to true until SetBlocked(id,
\* false) is called, under any interleaving of publish requests (Auth, then
\* SetActive) with the block operation.  The blocked flag is set only by
\* SetBlocked here, under the lock SetActive needs.
C25_BlockedNeverActivated ==
    [][\A p \in Handlers :
          (pc[p] = "pub_authed" /\ pc'[p] = "save") =>
              \A i \in 1..Len(Streams) :
                  (Streams[i].Blocked /\ ~Streams[i].Active) => ~Streams'[i].Active]_vars

\* SetActive returns to the publish handler p, which returns in turn
\* without writing anything: the request is answered 200.
PublishSucceeded(p) ==
    /\ pc[p] # "ret" /\ pc'[p] = "ret"
    /\ loc'[p].op = "publish" /\ loc'[p].call = "SetActive"

\* C26: whenever a publish request is answered with success (nothing but
\* the default 200 written), the record whose identifier Auth returned
\* exists and has its active flag set at the moment the handler returns,
\* also when the record was removed between Auth and SetActive or when
\* SetActive's Save failed.
C26_SuccessMeansActive ==
    [][\A p \in Handlers :
          /\ PublishSucceeded(p) => ActiveId(Streams', loc'[p].id)
          /\ (PublishAnswered(p) /\ loc'[p].status = StatusOK) =>
                (pc[p] = "ret" /\ loc[p].call = "SetActive")]_vars

\* C26 (what the code does): a publish request whose Auth granted is
\* answered 200 whatever SetActive returned; when SetActive returned
\* NotFound no record has the identifier.
C26_SuccessWhateverSetActive ==
    [][\A p \in Handlers :
          (PublishAnswered(p) /\ loc'[p].status = StatusOK) =>
              /\ loc'[p].reason = "granted" /\ loc'[p].call = "SetActive"
              /\ loc'[p].err \in {"", "NotFound", "PersistenceFailure"}
              /\ State' = State]_vars

\* What a load would put into memory: read() takes a missing state file
\* for an empty state.
StoredState ==
    IF files[RealPath].kind = "data" THEN Unmarshal(files[RealPath]) ELSE ZeroState

\* A registry is in memory: NewStore has allocated and loaded it and the
\* process has not ended.
StoreExists == pc[Main] \notin {"boot", "fatal", "exited"}

\* NewStore has returned the registry to main.
StoreReturned ==
    /\ StoreExists
    /\ pc[Main] # "ns_secret"
    /\ loc[Main].call # "NewStore"

Holds(p) == writer = p \/ p \in Readers

\* A step of the call path p.
WorkerStep(p) ==
    \/ p \in Handlers /\ (HandlerStep(p, InConc) \/ DumpStep(p, InConc))
    \/ SharedStep(p)
    \/ SaveAll(p)
    \/ p = Sweeper /\ SweeperStep

\* p is inside a call and cannot take a step: it waits for the lock.
Waits(p) == pc[p] \notin {"idle", "stopped"} /\ ~ENABLED WorkerStep(p)

\* What is left to a holder of the lock: its Save returns, or its write to
\* the response does.
Release(p) == SaveAll(p) \/ DumpReturn(p)

\* A holder of the lock is in its Save or in its write to the response,
\* where nothing acquires the lock and nothing is sent to the control
\* plane; and whoever waits, waits for a holder that can go on.
LockDiscipline ==
    /\ \A p \in Procs : writer = p => pc[p] \in SavePcs
    /\ writer # "none" => Readers = {}
    /\ \A p \in Workers : Holds(p) => (~Waits(p) /\ ENABLED Release(p))
    /\ \A p \in Workers : pc[p] = "drop_req" => ~Holds(p)
    /\ \A p \in Workers : Waits(p) => \E q \in Procs \ {p} : Holds(q) /\ ENABLED Release(q)

\* C28: no call acquires the registry lock while it already holds it, and
\* no call holds the lock while the outbound drop request is in flight;
\* hence with concurrent request handlers and the sweeper there is no
\* deadlock, and every call that acquires the lock eventually releases it,
\* provided Saves (and writes to a response) return.
C28_LockAlwaysReleased ==
    /\ []LockDiscipline
    /\ (writer # "none") ~> (writer = "none")
    /\ \A p \in Handlers : (p \in Readers) ~> (p \notin Readers)

\* A drop request is in flight on one call path while a second one holds
\* the exclusive lock in its Save and a third one waits for the lock.
C28_Witness ==
    \E p, q, r \in Workers :
        /\ p # q /\ q # r /\ p # r
        /\ pc[p] = "drop_req"
        /\ writer = q
        /\ Waits(r)

\* p's step is a RemoveStream call with an identifier a record has.
RemovePresent(p) ==
    /\ pc[p] = "remove" /\ pc'[p] # "remove" /\ ~Exited
    /\ IndexOfId(Streams, loc[p].id) # 0

\* The records of s but the ones with identifier id, in the order of s.
Without(s, id) == SelectSeq(s, LAMBDA r : r.Id # id)

\* C29: RemoveStream(id) called with an identifier present in the registry
\* removes exactly the record with that identifier: the collection shrinks
\* by one, every other record remains with all its fields unchanged, and
\* the remaining records keep their relative insertion order, wherever the
\* removed record was (first, middle, last or only element).
C29_RemoveExactlyOne ==
    [][\A p \in Workers :
          RemovePresent(p) =>
              /\ Len(Streams') = Len(Streams) - 1
              /\ Streams' = Without(Streams, loc[p].id)
              /\ State'.Secret = State.Secret /\ State'.CtrlUrl = State.CtrlUrl
              /\ loc'[p].found /\ loc'[p].index = IndexOfId(Streams, loc[p].id)]_vars

\* RemoveStream has returned after removing the middle one of three
\* records: the first and the third are left, in that order.
C29_Witness ==
    \E p \in Handlers :
        /\ pc[p] = "ret" /\ loc[p].call = "RemoveStream" /\ loc[p].err = ""
        /\ loc[p].found /\ loc[p].index = 2
        /\ Len(Streams) = 2
        /\ Streams[1].Id < loc[p].id /\ loc[p].id < Streams[2].Id

====
